---- MODULE Spec2Model ----
(***************************************************************************)
(* Model of the insurance quote comparison tool: the Google Sheets grid   *)
(* builder (app/sheets/sheets_client.py), the PDF comparison table        *)
(* (app/pdf_gen/generator.py) and the data model they read                *)
(* (app/extraction/models.py).                                            *)
(*                                                                         *)
(* Conventions.                                                            *)
(*  - Money is an integer number of cents (1500.00 is 150000).            *)
(*  - A Python value that may be None, a number or a string is a record   *)
(*    [k, n, s] with k in {"none","num","str"}, so that cells of mixed    *)
(*    type can be compared.                                                *)
(*  - An Optional[InsuranceQuote] / Optional[CurrentPolicy] is a record   *)
(*    with a `present` flag (FALSE models None).                           *)
(*  - Row numbers kept by the grid builder are the values of the code's   *)
(*    `row_num` counter; TLA+ sequences are indexed from 1 as well, so    *)
(*    row number r of the code designates grid[r] here and grid[r-1] in   *)
(*    Python.                                                              *)
(***************************************************************************)
EXTENDS Integers, Sequences, FiniteSets, TLC

VARIABLES
    session,      \* the ComparisonSession handed to the exporters
    grid,         \* rows returned by the last _build_full_grid (<<>> before)
    config,       \* GridConfig returned with it
    worksheet,    \* worksheet created by create_comparison
    pdf,          \* outcome of generate_comparison_pdf
    call,         \* last call of a helper function: its name, arguments, result
    st            \* st.session_state of the wizard, and what its last run did

vars == <<session, grid, config, worksheet, pdf, call, st>>

-----------------------------------------------------------------------------
(* Program constants *)

\* `session.carriers[:6]` in every Sheets row builder
MaxSheetCarriers == 6

\* `while len(row) < 7` in the Sheets row helpers
HelperRowWidth == 7

\* `len(session.carriers) > 6` in generate_comparison_pdf
MaxPdfCarriers == 6

-----------------------------------------------------------------------------
(* Python values *)

None == [k |-> "none", n |-> 0, s |-> ""]
Num(x) == [k |-> "num", n |-> x, s |-> ""]
Str(x) == [k |-> "str", n |-> 0, s |-> x]

IsNone(v) == v.k = "none"

\* Python truthiness of an Optional[float] / Optional[str]
Truthy(v) == \/ v.k = "num" /\ v.n # 0
             \/ v.k = "str" /\ v.s # ""

\* list[:n]
Take(seq, n) == SubSeq(seq, 1, IF Len(seq) < n THEN Len(seq) ELSE n)

\* [v] * n   (empty when n <= 0)
Repeat(v, n) == [i \in 1..n |-> v]

\* x in list
InList(x, seq) == \E i \in 1..Len(seq) : seq[i] = x

-----------------------------------------------------------------------------
(* Data model: app/extraction/models.py *)

NoLimits ==
    [dwelling |-> None, other_structures |-> None, personal_property |-> None,
     loss_of_use |-> None, personal_liability |-> None, medical_payments |-> None,
     bi_per_person |-> None, bi_per_accident |-> None, pd_per_accident |-> None,
     um_uim |-> None, comprehensive |-> None, collision |-> None, csl |-> None,
     umbrella_limit |-> None]

\* an InsuranceQuote; annual_premium and deductible are required floats
Quote(premium, ded, wind_hail, limits, endorsements, discounts) ==
    [present |-> TRUE, annual_premium |-> premium, deductible |-> ded,
     wind_hail_deductible |-> wind_hail, coverage_limits |-> limits,
     endorsements |-> endorsements, discounts_applied |-> discounts]

\* Optional[InsuranceQuote] = None
NoQuote ==
    [present |-> FALSE, annual_premium |-> 0, deductible |-> 0,
     wind_hail_deductible |-> None, coverage_limits |-> NoLimits,
     endorsements |-> <<>>, discounts_applied |-> <<>>]

CarrierBundle(name, home, home_2, auto, umbrella) ==
    [carrier_name |-> name, home |-> home, home_2 |-> home_2,
     auto |-> auto, umbrella |-> umbrella]

\* Optional[CurrentPolicy] = None
NoCurrentPolicy ==
    [present |-> FALSE, carrier_name |-> "",
     home_premium |-> None, home_dwelling |-> None, home_other_structures |-> None,
     home_liability |-> None, home_personal_property |-> None,
     home_loss_of_use |-> None, home_deductible |-> None,
     home_2_premium |-> None, home_2_dwelling |-> None,
     home_2_other_structures |-> None, home_2_liability |-> None,
     home_2_personal_property |-> None, home_2_loss_of_use |-> None,
     home_2_deductible |-> None,
     auto_premium |-> None, auto_limits |-> None, auto_um_uim |-> None,
     auto_comp_deductible |-> None, auto_collision_deductible |-> None,
     umbrella_premium |-> None, umbrella_limits |-> None,
     umbrella_deductible |-> None]

\* (variant) the total of the first dwelling, auto and umbrella only
BundleTotalPremiumOneDwelling(cb) ==
    (IF cb.home.present THEN cb.home.annual_premium ELSE 0)
    + (IF cb.auto.present THEN cb.auto.annual_premium ELSE 0)
    + (IF cb.umbrella.present THEN cb.umbrella.annual_premium ELSE 0)

\* CarrierBundle.total_premium
BundleTotalPremium(cb) ==
    (IF cb.home.present THEN cb.home.annual_premium ELSE 0)
    + (IF cb.home_2.present THEN cb.home_2.annual_premium ELSE 0)
    + (IF cb.auto.present THEN cb.auto.annual_premium ELSE 0)
    + (IF cb.umbrella.present THEN cb.umbrella.annual_premium ELSE 0)

\* CurrentPolicy.total_premium
CurrentTotalPremium(cp) ==
    (IF Truthy(cp.home_premium) THEN cp.home_premium.n ELSE 0)
    + (IF Truthy(cp.home_2_premium) THEN cp.home_2_premium.n ELSE 0)
    + (IF Truthy(cp.auto_premium) THEN cp.auto_premium.n ELSE 0)
    + (IF Truthy(cp.umbrella_premium) THEN cp.umbrella_premium.n ELSE 0)

-----------------------------------------------------------------------------
(* Number formatting *)

Pad2(x) == IF x < 10 THEN "0" \o ToString(x) ELSE ToString(x)

Pad3(x) == IF x < 10 THEN "00" \o ToString(x)
           ELSE IF x < 100 THEN "0" \o ToString(x) ELSE ToString(x)

\* the "," option of Python's format mini-language, for x >= 0
RECURSIVE Thousands(_)
Thousands(x) == IF x < 1000 THEN ToString(x)
                ELSE Thousands(x \div 1000) \o "," \o Pad3(x % 1000)

\* f"{v:,.0f}" for v >= 0 given in cents: the float is rounded half to even
\* (a value ending in .50 is exactly representable, so the tie is real)
RoundHalfEvenDollars(c) ==
    LET d == c \div 100
        r == c % 100
    IN  IF r > 50 \/ (r = 50 /\ d % 2 = 1) THEN d + 1 ELSE d

\* f"{v:,.2f}" for v given in cents
TwoDecimals(c) ==
    IF c < 0 THEN "-" \o Thousands((0 - c) \div 100) \o "." \o Pad2((0 - c) % 100)
    ELSE Thousands(c \div 100) \o "." \o Pad2(c % 100)

\* SciotoComparisonPDF._fmt_currency; a string that float() rejects comes
\* back unchanged (the except branch)
FmtCurrency(v) ==
    IF v.k = "none" THEN "-"
    ELSE IF v.k = "str" THEN v.s
    ELSE IF v.n >= 100000 THEN "$" \o Thousands(RoundHalfEvenDollars(v.n))
    ELSE "$" \o TwoDecimals(v.n)

\* SheetsClient._format_cell_value: None becomes "-", numbers and strings pass
FormatCellValue(v) == IF v.k = "none" THEN Str("-") ELSE v

\* int(x / 1000) and int(x / 1_000_000) of a non-negative dollar amount in cents
Thousandths(c) == c \div 100000
Millionths(c) == c \div 100000000

\* (variant) a CSL is always given in thousands
CslTextInThousands(csl) == ToString(Thousandths(csl.n)) \o "K CSL"

\* The CSL branch shared by both _get_auto_limits implementations
CslText(csl) ==
    IF csl.n >= 100000000 THEN ToString(Millionths(csl.n)) \o "M CSL"
    ELSE ToString(Thousandths(csl.n)) \o "K CSL"

\* SheetsClient._get_auto_limits: all([...]) and `if cl.csl` are truthiness
\* tests, so a limit of 0 counts as missing
SheetsGetAutoLimits(quote) ==
    LET cl == quote.coverage_limits
    IN  IF Truthy(cl.bi_per_person) /\ Truthy(cl.bi_per_accident)
           /\ Truthy(cl.pd_per_accident)
        THEN ToString(Thousandths(cl.bi_per_person.n)) \o "/"
             \o ToString(Thousandths(cl.bi_per_accident.n)) \o "/"
             \o ToString(Thousandths(cl.pd_per_accident.n))
        ELSE IF Truthy(cl.csl) THEN CslText(cl.csl)
        ELSE "-"

\* SciotoComparisonPDF._get_auto_limits
PdfGetAutoLimits(quote) ==
    LET cl == quote.coverage_limits
    IN  IF Truthy(cl.bi_per_person) /\ Truthy(cl.bi_per_accident)
           /\ Truthy(cl.pd_per_accident)
        THEN ToString(Thousandths(cl.bi_per_person.n)) \o "/"
             \o ToString(Thousandths(cl.bi_per_accident.n)) \o "/"
             \o ToString(Thousandths(cl.pd_per_accident.n))
        ELSE IF Truthy(cl.csl) THEN CslText(cl.csl)
        ELSE "-"

\* (variant) "-" only when the limit is None
SheetsUmbrellaLimitsNoneOnly(quote) ==
    LET limit == quote.coverage_limits.umbrella_limit
    IN  IF limit.k = "none" THEN Str("-")
        ELSE IF limit.n >= 100000000
             THEN Str(ToString(Millionths(limit.n)) \o "M CSL")
        ELSE limit

\* SheetsClient._get_umbrella_limits: "-" when falsy, raw number below 1M
SheetsUmbrellaLimits(quote) ==
    LET limit == quote.coverage_limits.umbrella_limit
    IN  IF ~Truthy(limit) THEN Str("-")
        ELSE IF limit.k = "num"
             THEN IF limit.n >= 100000000
                  THEN Str(ToString(Millionths(limit.n)) \o "M CSL")
                  ELSE limit
        ELSE Str("-")

\* SciotoComparisonPDF._get_umbrella_limits: "-" only when None
PdfUmbrellaLimits(quote) ==
    LET limit == quote.coverage_limits.umbrella_limit
    IN  IF limit.k = "none" THEN "-"
        ELSE IF limit.n >= 100000000
             THEN ToString(Millionths(limit.n)) \o "M CSL"
        ELSE FmtCurrency(limit)

-----------------------------------------------------------------------------
(* Multi-dwelling flag and column count *)

\* (variant) the baseline's dwelling-2 premium is not looked at
HasMultiDwellingCarriersOnly(s) ==
    \E i \in 1..Len(s.carriers) : s.carriers[i].home_2.present

\* _has_multi_dwelling (sheets_client.py); `cp.home_2_premium` is tested by
\* truthiness, so None and 0.0 both count as "no dwelling 2"
HasMultiDwelling(s) ==
    IF s.current_policy.present /\ Truthy(s.current_policy.home_2_premium)
    THEN TRUE
    ELSE \E i \in 1..Len(s.carriers) : s.carriers[i].home_2.present

\* _session_has_multi_dwelling (generator.py)
SessionHasMultiDwelling(current_policy, carriers) ==
    IF current_policy.present /\ Truthy(current_policy.home_2_premium)
    THEN TRUE
    ELSE \E i \in 1..Len(carriers) : carriers[i].home_2.present

\* (variant) the baseline column is not counted
GetNumDataColumnsNoBaseline(s) == Len(Take(s.carriers, MaxSheetCarriers))

\* SheetsClient._get_num_data_columns
GetNumDataColumns(s) ==
    Len(Take(s.carriers, MaxSheetCarriers)) + (IF s.current_policy.present THEN 1 ELSE 0)

-----------------------------------------------------------------------------
(* Sheets row helpers.  The code passes a pair of lambdas to each helper; *)
(* here a lambda `lambda cp: cp.<cur>` is the field name cur, and a       *)
(* lambda `lambda cb: cb.<slot>.<field> if cb.<slot> else None` is the    *)
(* pair (slot, field).                                                     *)

\* lambda cb: cb.<slot>.<field> if cb.<slot> else None
CarrierGetter(cb, slot, field) ==
    LET q == cb[slot]
    IN  IF ~q.present THEN None
        ELSE IF field = "annual_premium" THEN Num(q.annual_premium)
        ELSE IF field = "deductible" THEN Num(q.deductible)
        ELSE q.coverage_limits[field]

\* the trailing `while len(row) < 7: row.append("")`
PadHelperRow(row) == row \o Repeat(Str(""), HelperRowWidth - Len(row))

\* the `for carrier in session.carriers[:6]` loop of the two generic helpers
CarrierCells(s, slot, field) ==
    LET cs == Take(s.carriers, MaxSheetCarriers)
    IN  [i \in 1..Len(cs) |-> FormatCellValue(CarrierGetter(cs[i], slot, field))]

\* SheetsClient._build_premium_row
BuildPremiumRow(s, cur, slot, field) ==
    PadHelperRow(
        (IF s.current_policy.present
         THEN <<FormatCellValue(s.current_policy[cur])>>
         ELSE <<Str("-")>>)
        \o CarrierCells(s, slot, field))

\* SheetsClient._build_coverage_row
BuildCoverageRow(s, cur, slot, field) ==
    PadHelperRow(
        (IF s.current_policy.present
         THEN <<FormatCellValue(s.current_policy[cur])>>
         ELSE <<Str("-")>>)
        \o CarrierCells(s, slot, field))

\* SheetsClient._build_total_row
BuildTotalRow(s) ==
    LET cs == Take(s.carriers, MaxSheetCarriers)
    IN  PadHelperRow(
            (IF s.current_policy.present
             THEN <<FormatCellValue(Num(CurrentTotalPremium(s.current_policy)))>>
             ELSE <<Str("-")>>)
            \o [i \in 1..Len(cs) |-> FormatCellValue(Num(BundleTotalPremium(cs[i])))])

\* SheetsClient._build_auto_limits_row
BuildAutoLimitsRow(s) ==
    LET cs == Take(s.carriers, MaxSheetCarriers)
    IN  PadHelperRow(
            (IF s.current_policy.present
             THEN <<IF Truthy(s.current_policy.auto_limits)
                    THEN s.current_policy.auto_limits ELSE Str("-")>>
             ELSE <<Str("-")>>)
            \o [i \in 1..Len(cs) |->
                  IF cs[i].auto.present
                  THEN Str(SheetsGetAutoLimits(cs[i].auto)) ELSE Str("-")])

\* SheetsClient._build_umbrella_limits_row
BuildUmbrellaLimitsRow(s) ==
    LET cs == Take(s.carriers, MaxSheetCarriers)
    IN  PadHelperRow(
            (IF s.current_policy.present
             THEN <<IF Truthy(s.current_policy.umbrella_limits)
                    THEN s.current_policy.umbrella_limits ELSE Str("-")>>
             ELSE <<Str("-")>>)
            \o [i \in 1..Len(cs) |->
                  IF cs[i].umbrella.present
                  THEN SheetsUmbrellaLimits(cs[i].umbrella) ELSE Str("-")])

\* SheetsClient._build_home_section
BuildHomeSection(s) ==
    << BuildCoverageRow(s, "home_dwelling", "home", "dwelling"),
       BuildCoverageRow(s, "home_other_structures", "home", "other_structures"),
       BuildCoverageRow(s, "home_liability", "home", "personal_liability"),
       BuildCoverageRow(s, "home_personal_property", "home", "personal_property"),
       BuildCoverageRow(s, "home_loss_of_use", "home", "loss_of_use"),
       BuildCoverageRow(s, "home_deductible", "home", "deductible") >>

\* SheetsClient._build_home_2_section
BuildHome2Section(s) ==
    << BuildCoverageRow(s, "home_2_dwelling", "home_2", "dwelling"),
       BuildCoverageRow(s, "home_2_other_structures", "home_2", "other_structures"),
       BuildCoverageRow(s, "home_2_liability", "home_2", "personal_liability"),
       BuildCoverageRow(s, "home_2_personal_property", "home_2", "personal_property"),
       BuildCoverageRow(s, "home_2_loss_of_use", "home_2", "loss_of_use"),
       BuildCoverageRow(s, "home_2_deductible", "home_2", "deductible") >>

\* SheetsClient._build_auto_section
BuildAutoSection(s) ==
    << BuildAutoLimitsRow(s),
       BuildCoverageRow(s, "auto_um_uim", "auto", "um_uim"),
       BuildCoverageRow(s, "auto_comp_deductible", "auto", "comprehensive"),
       BuildCoverageRow(s, "auto_collision_deductible", "auto", "deductible") >>

\* SheetsClient._build_umbrella_section
BuildUmbrellaSection(s) ==
    << BuildUmbrellaLimitsRow(s),
       BuildCoverageRow(s, "umbrella_deductible", "umbrella", "deductible") >>

-----------------------------------------------------------------------------
(* SheetsClient._build_full_grid.  The builder state b carries the code's *)
(* locals: grid, row_num, config and data_blocks.  row_num is advanced by *)
(* the code's own `row_num += 1`, never derived from len(grid).           *)

\* GridConfig(); the three A1-notation ranges of the code are kept as the
\* last column index and the last row they are built from
NewGridConfig ==
    [total_rows |-> 0, header_rows |-> <<>>, sub_header_rows |-> <<>>,
     currency_rows |-> <<>>, total_row |-> 0, even_data_rows |-> <<>>,
     current_col_ranges |-> <<>>, last_col |-> 0, range_last_row |-> 0]

\* (variant) the GridConfig of the previous compilation is reused, as a
\* dataclass with shared mutable defaults would
NewBuilderReusingConfig ==
    [grid |-> <<>>, row_num |-> 0, config |-> config, data_blocks |-> <<>>]

\* config = GridConfig(); data_blocks = []; row_num = 0; grid = []
NewBuilder ==
    [grid |-> <<>>, row_num |-> 0, config |-> NewGridConfig, data_blocks |-> <<>>]

\* (variant) the helper row is kept at its 7 cells, only the leading "-" of
\* a session without current policy is dropped
PadRowUntrimmed(s, n, helper_row) ==
    IF ~s.current_policy.present THEN Tail(helper_row) ELSE helper_row

\* pad_row
PadRow(s, n, helper_row) ==
    LET data == IF ~s.current_policy.present THEN Tail(helper_row) ELSE helper_row
    IN  Take(data \o Repeat(Str(""), n), n)

\* label_row
LabelRow(s, n, label, helper_row) == <<Str(label)>> \o PadRow(s, n, helper_row)

\* empty_row
EmptyRow(n) == Repeat(Str(""), 1 + n)

\* section_header, also the `[label] + [""] * num_data_cols` placeholder
SectionHeader(label, n) == <<Str(label)>> \o Repeat(Str(""), n)

\* row_num += 1; grid.append(row)
AppendRow(b, row) == [b EXCEPT !.row_num = @ + 1, !.grid = Append(@, row)]

\* (variant) the header row is recorded under its list position, the value
\* of row_num before the increment
AppendHeaderRowZeroBased(b, row) ==
    LET c == AppendRow(b, row)
    IN  [c EXCEPT !.config.header_rows = Append(@, b.row_num)]

\* ... followed by config.header_rows.append(row_num)
AppendHeaderRow(b, row) ==
    LET c == AppendRow(b, row)
    IN  [c EXCEPT !.config.header_rows = Append(@, c.row_num)]

\* ... followed by config.sub_header_rows.append(row_num)
AppendSubHeaderRow(b, row) ==
    LET c == AppendRow(b, row)
    IN  [c EXCEPT !.config.sub_header_rows = Append(@, c.row_num)]

\* ... followed by config.currency_rows.append(row_num)
AppendCurrencyRow(b, row) ==
    LET c == AppendRow(b, row)
    IN  [c EXCEPT !.config.currency_rows = Append(@, c.row_num)]

\* (variant) the separator is appended but row_num is not advanced
AppendBlankSeparatorUncounted(b, n) == [b EXCEPT !.grid = Append(@, EmptyRow(n))]

\* "Blank separator": row_num += 1; grid.append(empty_row())
AppendBlankSeparator(b, n) == AppendRow(b, EmptyRow(n))

\* data_blocks.append((start, row_num))
CloseBlock(b, start) == [b EXCEPT !.data_blocks = Append(@, <<start, b.row_num>>)]

\* `for i, label in enumerate(labels)`: a data row when the section's data
\* was built, a label with blank cells when it is None; currency says
\* whether the loop records the row in currency_rows
RECURSIVE AppendDataRows(_, _, _, _, _, _, _)
AppendDataRows(b, s, n, labels, data, currency, i) ==
    IF i > Len(labels) THEN b
    ELSE LET row == IF data # <<>> THEN LabelRow(s, n, labels[i], data[i])
                    ELSE SectionHeader(labels[i], n)
             c == IF currency THEN AppendCurrencyRow(b, row) ELSE AppendRow(b, row)
         IN  AppendDataRows(c, s, n, labels, data, currency, i + 1)

home_labels ==
    <<"Dwelling", "Other Structures", "Liability",
      "Personal Property", "Loss of Use", "Deductible">>

auto_labels == <<"Limits", "UM/UIM", "Comprehensive", "Collision">>

umbrella_labels == <<"Limits", "Deductible">>

\* Rows 1-3: title, date, carrier names
LeadingRows(b, s, n) ==
    LET total_cols == 1 + n
        b1 == AppendHeaderRow(b,
                <<Str(""), Str("Quote Comparison - " \o s.client_name)>>
                \o Repeat(Str(""), n - 1))
        b2 == AppendRow(b1, <<Str(""), Str(s.date)>> \o Repeat(Str(""), n - 1))
        cs == Take(s.carriers, MaxSheetCarriers)
        carrier_header ==
            <<Str("Premium Breakout")>>
            \o (IF s.current_policy.present
                THEN <<Str("Current: " \o
                        (IF s.current_policy.carrier_name # ""
                         THEN s.current_policy.carrier_name ELSE "Current"))>>
                ELSE <<>>)
            \o [i \in 1..Len(cs) |-> Str(cs[i].carrier_name)]
    IN  AppendHeaderRow(b2,
            Take(carrier_header \o Repeat(Str(""), total_cols), total_cols))

\* "=== Premium Section ===" up to and including the blank separator
PremiumSection(b, s, n, is_multi_dw) ==
    LET premium_start == b.row_num + 1
        b1 == AppendCurrencyRow(b, LabelRow(s, n, "Auto Premium",
                BuildPremiumRow(s, "auto_premium", "auto", "annual_premium")))
        b2 == IF is_multi_dw
              THEN AppendCurrencyRow(
                     AppendCurrencyRow(b1, LabelRow(s, n, "Home 1 Premium",
                        BuildPremiumRow(s, "home_premium", "home", "annual_premium"))),
                     LabelRow(s, n, "Home 2 Premium",
                        BuildPremiumRow(s, "home_2_premium", "home_2", "annual_premium")))
              ELSE AppendCurrencyRow(b1, LabelRow(s, n, "Home Premium",
                        BuildPremiumRow(s, "home_premium", "home", "annual_premium")))
        b3 == AppendCurrencyRow(b2, LabelRow(s, n, "Umbrella Premium",
                BuildPremiumRow(s, "umbrella_premium", "umbrella", "annual_premium")))
        b4 == AppendCurrencyRow(b3, LabelRow(s, n, "Total", BuildTotalRow(s)))
        b5 == [b4 EXCEPT !.config.total_row = b4.row_num]
    IN  AppendBlankSeparator(CloseBlock(b5, premium_start), n)

\* "=== Home Coverage Section ===" up to and including the blank separator
HomeCoverageSection(b, s, n, is_multi_dw) ==
    LET b1 == AppendHeaderRow(b, SectionHeader("Home Coverage", n))
        home_data == IF InList("home", s.sections_included)
                     THEN BuildHomeSection(s) ELSE <<>>
        home_2_data == IF InList("home", s.sections_included)
                       THEN BuildHome2Section(s) ELSE <<>>
        b2 == IF is_multi_dw
              THEN LET d1 == AppendSubHeaderRow(b1, SectionHeader("Dwelling 1", n))
                       d2 == CloseBlock(
                               AppendDataRows(d1, s, n, home_labels, home_data, TRUE, 1),
                               d1.row_num + 1)
                       d3 == AppendSubHeaderRow(d2, SectionHeader("Dwelling 2", n))
                   IN  CloseBlock(
                         AppendDataRows(d3, s, n, home_labels, home_2_data, TRUE, 1),
                         d3.row_num + 1)
              ELSE CloseBlock(
                     AppendDataRows(b1, s, n, home_labels, home_data, TRUE, 1),
                     b1.row_num + 1)
    IN  AppendBlankSeparator(b2, n)

\* "=== Auto Coverage Section ===" up to and including the blank separator
AutoCoverageSection(b, s, n) ==
    LET b1 == AppendHeaderRow(b, SectionHeader("Auto Coverage", n))
        auto_data == IF InList("auto", s.sections_included)
                     THEN BuildAutoSection(s) ELSE <<>>
        b2 == CloseBlock(
                AppendDataRows(b1, s, n, auto_labels, auto_data, FALSE, 1),
                b1.row_num + 1)
    IN  AppendBlankSeparator(b2, n)

\* (variant) the umbrella section is left out when umbrella is not included
UmbrellaCoverageSectionOmitted(b, s, n) ==
    IF ~InList("umbrella", s.sections_included) THEN b
    ELSE LET b1 == AppendHeaderRow(b, SectionHeader("Umbrella Coverage", n))
         IN  CloseBlock(
               AppendDataRows(b1, s, n, umbrella_labels, BuildUmbrellaSection(s), FALSE, 1),
               b1.row_num + 1)

\* "=== Umbrella Coverage Section ===" (the last rows of the grid)
UmbrellaCoverageSection(b, s, n) ==
    LET b1 == AppendHeaderRow(b, SectionHeader("Umbrella Coverage", n))
        umbrella_data == IF InList("umbrella", s.sections_included)
                         THEN BuildUmbrellaSection(s) ELSE <<>>
    IN  CloseBlock(
          AppendDataRows(b1, s, n, umbrella_labels, umbrella_data, FALSE, 1),
          b1.row_num + 1)

\* (variant) the rows of the block whose row number is even
BlockEvenRowsGlobalParity(block) ==
    LET first == IF block[1] % 2 = 0 THEN block[1] ELSE block[1] + 1
        cnt == IF block[2] < first THEN 0 ELSE (block[2] - first) \div 2 + 1
    IN  [i \in 1..cnt |-> first + 2 * (i - 1)]

\* rows start, start+2, ... of one block: `if i % 2 == 0`
BlockEvenRows(block) ==
    LET len == block[2] - block[1] + 1
        cnt == IF len <= 0 THEN 0 ELSE (len + 1) \div 2
    IN  [i \in 1..cnt |-> block[1] + 2 * (i - 1)]

\* "Compute even_data_rows from data blocks"
RECURSIVE EvenDataRows(_)
EvenDataRows(blocks) ==
    IF blocks = <<>> THEN <<>>
    ELSE BlockEvenRows(Head(blocks)) \o EvenDataRows(Tail(blocks))

\* "Finalize config"
FinalizeConfig(b, n) ==
    [b.config EXCEPT !.even_data_rows = EvenDataRows(b.data_blocks),
                     !.current_col_ranges = b.data_blocks,
                     !.last_col = n,
                     !.total_rows = b.row_num,
                     !.range_last_row = b.row_num]

\* SheetsClient._build_full_grid(session, num_data_cols)
BuildFullGrid(s, n) ==
    LET is_multi_dw == HasMultiDwelling(s)
        b1 == LeadingRows(NewBuilder, s, n)
        b2 == PremiumSection(b1, s, n, is_multi_dw)
        b3 == HomeCoverageSection(b2, s, n, is_multi_dw)
        b4 == AutoCoverageSection(b3, s, n)
        b5 == UmbrellaCoverageSection(b4, s, n)
    IN  [grid |-> b5.grid, config |-> FinalizeConfig(b5, n)]

-----------------------------------------------------------------------------
(* PDF comparison table: SciotoComparisonPDF.add_comparison_table.  Each  *)
(* row drawn is a record [kind, label, values]; values are the strings    *)
(* passed to the data cells, left to right.  Where the rows fall on the  *)
(* pages is modelled further down (page geometry).                        *)

PdfRow(kind, label, values) == [kind |-> kind, label |-> label, values |-> values]

\* _add_table_header: "COVERAGE", the current carrier when there is one,
\* then every carrier name (names of the model are short enough that the
\* `name[:13] + "..."` truncation never applies)
AddTableHeader(current_policy, carriers) ==
    PdfRow("table_header", "COVERAGE",
           (IF current_policy.present THEN <<current_policy.carrier_name>> ELSE <<>>)
           \o [i \in 1..Len(carriers) |-> carriers[i].carrier_name])

\* _add_section_divider_row / _add_sub_divider_row: one full-width cell
AddSectionDividerRow(title) == PdfRow("divider", title, <<>>)
AddSubDividerRow(title) == PdfRow("sub_divider", title, <<>>)

\* _add_data_row
AddDataRow(label, values) == PdfRow("data", label, values)

\* _extract_premium_row
ExtractPremiumRow(policy_type, current_policy, carriers) ==
    (IF current_policy.present
     THEN IF policy_type = "home" THEN <<FmtCurrency(current_policy.home_premium)>>
          ELSE IF policy_type = "home_2"
               THEN <<FmtCurrency(current_policy.home_2_premium)>>
          ELSE IF policy_type = "auto"
               THEN <<FmtCurrency(current_policy.auto_premium)>>
          ELSE IF policy_type = "umbrella"
               THEN <<FmtCurrency(current_policy.umbrella_premium)>>
          ELSE <<>>
     ELSE <<>>)
    \o [i \in 1..Len(carriers) |->
          IF policy_type \in {"home", "home_2", "auto", "umbrella"}
             /\ carriers[i][policy_type].present
          THEN FmtCurrency(Num(carriers[i][policy_type].annual_premium))
          ELSE "-"]

\* current_key.replace("home_", "home_2_", 1) on the keys of home_rows
Home2Key(current_key) ==
    CASE current_key = "home_dwelling" -> "home_2_dwelling"
      [] current_key = "home_other_structures" -> "home_2_other_structures"
      [] current_key = "home_personal_property" -> "home_2_personal_property"
      [] current_key = "home_loss_of_use" -> "home_2_loss_of_use"
      [] current_key = "home_liability" -> "home_2_liability"
      [] current_key = "home_deductible" -> "home_2_deductible"
      [] OTHER -> current_key

\* one carrier cell of _extract_home_row
HomeCarrierCell(quote, carrier_key) ==
    IF ~quote.present THEN "-"
    ELSE IF carrier_key \in {"deductible", "wind_hail_deductible"}
         THEN LET val == IF carrier_key = "deductible" THEN Num(quote.deductible)
                         ELSE quote.wind_hail_deductible
              IN  IF Truthy(val) THEN FmtCurrency(val) ELSE "-"
    ELSE LET val == quote.coverage_limits[carrier_key]
         IN  IF val.k = "none" THEN "-"
             ELSE IF val.k = "str" THEN val.s
             ELSE FmtCurrency(val)

\* (variant) no "-" cell for a field CurrentPolicy does not have
HomeCurrentCellNoPlaceholder(current_key, current_policy, dwelling) ==
    LET effective_current_key ==
            IF dwelling = 2 /\ current_key # "" THEN Home2Key(current_key)
            ELSE current_key
    IN  IF current_policy.present /\ effective_current_key # ""
        THEN <<FmtCurrency(current_policy[effective_current_key])>>
        ELSE <<>>

\* the "Current Policy value" part of _extract_home_row; current_key = ""
\* models None (the field does not exist on CurrentPolicy)
HomeCurrentCell(current_key, current_policy, dwelling) ==
    LET effective_current_key ==
            IF dwelling = 2 /\ current_key # "" THEN Home2Key(current_key)
            ELSE current_key
    IN  IF current_policy.present /\ effective_current_key # ""
        THEN <<FmtCurrency(current_policy[effective_current_key])>>
        ELSE IF current_policy.present THEN <<"-">>
        ELSE <<>>

\* _extract_home_row
ExtractHomeRow(carrier_key, current_key, current_policy, carriers, dwelling) ==
    HomeCurrentCell(current_key, current_policy, dwelling)
    \o [i \in 1..Len(carriers) |->
          HomeCarrierCell(IF dwelling = 1 THEN carriers[i].home ELSE carriers[i].home_2,
                          carrier_key)]

\* the "Current Policy value" part of _extract_auto_row / _extract_umbrella_row
TextOrCurrencyCell(current_key, current_policy) ==
    IF current_policy.present
    THEN LET current_val == current_policy[current_key]
         IN  IF current_val.k = "none" THEN <<"-">>
             ELSE IF current_val.k = "str" THEN <<current_val.s>>
             ELSE <<FmtCurrency(current_val)>>
    ELSE <<>>

\* _extract_auto_row
ExtractAutoRow(carrier_key, current_key, current_policy, carriers) ==
    TextOrCurrencyCell(current_key, current_policy)
    \o [i \in 1..Len(carriers) |->
          LET auto == carriers[i].auto
          IN  IF ~auto.present THEN "-"
              ELSE IF carrier_key = "limits" THEN PdfGetAutoLimits(auto)
              ELSE IF carrier_key = "collision" THEN FmtCurrency(Num(auto.deductible))
              ELSE LET val == auto.coverage_limits[carrier_key]
                   IN  IF val.k = "none" THEN "-"
                       ELSE IF val.k = "str" THEN val.s
                       ELSE FmtCurrency(val)]

\* _extract_umbrella_row
ExtractUmbrellaRow(carrier_key, current_key, current_policy, carriers) ==
    TextOrCurrencyCell(current_key, current_policy)
    \o [i \in 1..Len(carriers) |->
          LET umbrella == carriers[i].umbrella
          IN  IF ~umbrella.present THEN "-"
              ELSE IF carrier_key = "limits" THEN PdfUmbrellaLimits(umbrella)
              ELSE IF umbrella.deductible # 0
                   THEN FmtCurrency(Num(umbrella.deductible))
              ELSE "-"]

\* _add_total_row
AddTotalRow(current_policy, carriers) ==
    PdfRow("total", "Total",
           (IF current_policy.present
            THEN <<FmtCurrency(Num(CurrentTotalPremium(current_policy)))>>
            ELSE <<>>)
           \o [i \in 1..Len(carriers) |->
                 FmtCurrency(Num(BundleTotalPremium(carriers[i])))])

\* _add_premium_section
AddPremiumSection(current_policy, carriers, sections_included) ==
    LET is_multi_dw == SessionHasMultiDwelling(current_policy, carriers)
    IN  <<AddSectionDividerRow("PREMIUM SUMMARY")>>
        \o (IF InList("home", sections_included)
            THEN IF is_multi_dw
                 THEN << AddDataRow("Home 1 Premium",
                            ExtractPremiumRow("home", current_policy, carriers)),
                         AddDataRow("Home 2 Premium",
                            ExtractPremiumRow("home_2", current_policy, carriers)) >>
                 ELSE << AddDataRow("Home Premium",
                            ExtractPremiumRow("home", current_policy, carriers)) >>
            ELSE <<>>)
        \o (IF InList("auto", sections_included)
            THEN << AddDataRow("Auto Premium",
                        ExtractPremiumRow("auto", current_policy, carriers)) >>
            ELSE <<>>)
        \o (IF InList("umbrella", sections_included)
            THEN << AddDataRow("Umbrella Premium",
                        ExtractPremiumRow("umbrella", current_policy, carriers)) >>
            ELSE <<>>)
        \o <<AddTotalRow(current_policy, carriers)>>

\* home_rows of _add_home_section: (label, carrier_key, current_key)
home_rows ==
    << <<"Dwelling (Cov A)", "dwelling", "home_dwelling">>,
       <<"Other Structures (B)", "other_structures", "home_other_structures">>,
       <<"Personal Property (C)", "personal_property", "home_personal_property">>,
       <<"Loss of Use (D)", "loss_of_use", "home_loss_of_use">>,
       <<"Personal Liability (E)", "personal_liability", "home_liability">>,
       <<"Medical Payments (F)", "medical_payments", "">>,
       <<"All-Peril Deductible", "deductible", "home_deductible">>,
       <<"Wind/Hail Deductible", "wind_hail_deductible", "">> >>

auto_rows ==
    << <<"Limits", "limits", "auto_limits">>,
       <<"UM/UIM", "um_uim", "auto_um_uim">>,
       <<"Deductibles (Comp)", "comprehensive", "auto_comp_deductible">>,
       <<"Deductibles (Collision)", "collision", "auto_collision_deductible">> >>

umbrella_rows ==
    << <<"Limits", "limits", "umbrella_limits">>,
       <<"Deductible", "deductible", "umbrella_deductible">> >>

\* the `for row_idx, (label, carrier_key, current_key) in enumerate(home_rows)` loop
HomeDataRows(current_policy, carriers, dwelling) ==
    [i \in 1..Len(home_rows) |->
        AddDataRow(home_rows[i][1],
                   ExtractHomeRow(home_rows[i][2], home_rows[i][3],
                                  current_policy, carriers, dwelling))]

\* _add_home_section
AddHomeSection(current_policy, carriers) ==
    LET is_multi_dw == SessionHasMultiDwelling(current_policy, carriers)
    IN  <<AddSectionDividerRow("HOME DETAILS")>>
        \o (IF is_multi_dw
            THEN <<AddSubDividerRow("DWELLING 1")>>
                 \o HomeDataRows(current_policy, carriers, 1)
                 \o <<AddSubDividerRow("DWELLING 2")>>
                 \o HomeDataRows(current_policy, carriers, 2)
            ELSE HomeDataRows(current_policy, carriers, 1))

\* _add_auto_section
AddAutoSection(current_policy, carriers) ==
    <<AddSectionDividerRow("AUTO DETAILS")>>
    \o [i \in 1..Len(auto_rows) |->
          AddDataRow(auto_rows[i][1],
                     ExtractAutoRow(auto_rows[i][2], auto_rows[i][3],
                                    current_policy, carriers))]

\* _add_umbrella_section
AddUmbrellaSection(current_policy, carriers) ==
    <<AddSectionDividerRow("UMBRELLA DETAILS")>>
    \o [i \in 1..Len(umbrella_rows) |->
          AddDataRow(umbrella_rows[i][1],
                     ExtractUmbrellaRow(umbrella_rows[i][2], umbrella_rows[i][3],
                                        current_policy, carriers))]

\* (variant) the body sections follow the order of sections_included
RECURSIVE SectionsInListOrder(_, _)
SectionsInListOrder(s, i) ==
    IF i > Len(s.sections_included) THEN <<>>
    ELSE (IF s.sections_included[i] = "home"
          THEN AddHomeSection(s.current_policy, s.carriers)
          ELSE IF s.sections_included[i] = "auto"
               THEN AddAutoSection(s.current_policy, s.carriers)
          ELSE IF s.sections_included[i] = "umbrella"
               THEN AddUmbrellaSection(s.current_policy, s.carriers)
          ELSE <<>>)
         \o SectionsInListOrder(s, i + 1)

BodySectionsInListOrder(s) == SectionsInListOrder(s, 1)

\* "SECTION 2/3/4": the body sections of add_comparison_table
BodySections(s) ==
    (IF InList("home", s.sections_included)
     THEN AddHomeSection(s.current_policy, s.carriers) ELSE <<>>)
    \o (IF InList("auto", s.sections_included)
        THEN AddAutoSection(s.current_policy, s.carriers) ELSE <<>>)
    \o (IF InList("umbrella", s.sections_included)
        THEN AddUmbrellaSection(s.current_policy, s.carriers) ELSE <<>>)

\* SciotoComparisonPDF.add_comparison_table
AddComparisonTable(s) ==
    <<AddTableHeader(s.current_policy, s.carriers)>>
    \o AddPremiumSection(s.current_policy, s.carriers, s.sections_included)
    \o BodySections(s)

-----------------------------------------------------------------------------
(* Page layout: _get_layout.  Font sizes are in half points and the row  *)
(* height in half millimetres (7.5 is 15); the label width is in mm.      *)

\* (variant) the seven-column layout keeps the widest label column
GetLayoutWideLabelAtSeven(num_carriers, has_current) ==
    LET total_data_cols == num_carriers + (IF has_current THEN 1 ELSE 0)
    IN  IF total_data_cols <= 3
        THEN [orientation |-> "P", label_w |-> 52, header_font |-> 16,
              body_font |-> 16, row_h |-> 16]
        ELSE IF total_data_cols = 4
        THEN [orientation |-> "P", label_w |-> 50, header_font |-> 15,
              body_font |-> 15, row_h |-> 16]
        ELSE IF total_data_cols = 5
        THEN [orientation |-> "P", label_w |-> 48, header_font |-> 15,
              body_font |-> 15, row_h |-> 16]
        ELSE IF total_data_cols = 6
        THEN [orientation |-> "L", label_w |-> 50, header_font |-> 15,
              body_font |-> 14, row_h |-> 15]
        ELSE [orientation |-> "L", label_w |-> 52, header_font |-> 14,
              body_font |-> 13, row_h |-> 14]

\* _get_layout(num_carriers, has_current)
GetLayout(num_carriers, has_current) ==
    LET total_data_cols == num_carriers + (IF has_current THEN 1 ELSE 0)
    IN  IF total_data_cols <= 3
        THEN [orientation |-> "P", label_w |-> 52, header_font |-> 16,
              body_font |-> 16, row_h |-> 16]
        ELSE IF total_data_cols = 4
        THEN [orientation |-> "P", label_w |-> 50, header_font |-> 15,
              body_font |-> 15, row_h |-> 16]
        ELSE IF total_data_cols = 5
        THEN [orientation |-> "P", label_w |-> 48, header_font |-> 15,
              body_font |-> 15, row_h |-> 16]
        ELSE IF total_data_cols = 6
        THEN [orientation |-> "L", label_w |-> 50, header_font |-> 15,
              body_font |-> 14, row_h |-> 15]
        ELSE [orientation |-> "L", label_w |-> 46, header_font |-> 14,
              body_font |-> 13, row_h |-> 14]

\* no layout was determined
NoLayout ==
    [orientation |-> "", label_w |-> 0, header_font |-> 0, body_font |-> 0,
     row_h |-> 0]

-----------------------------------------------------------------------------
(* Endorsements & Discounts: SciotoComparisonPDF.add_endorsements_section *)

\* dict.fromkeys(items), built left to right: `seen` holds the keys so far
RECURSIVE DictFromKeys(_, _)
DictFromKeys(items, seen) ==
    IF items = <<>> THEN seen
    ELSE DictFromKeys(Tail(items),
                      IF InList(Head(items), seen) THEN seen
                      ELSE Append(seen, Head(items)))

\* (variant) of a repeated item the last occurrence is the one kept
DedupKeepLast(items) ==
    LET reversed(q) == [i \in 1..Len(q) |-> q[Len(q) + 1 - i]]
    IN  reversed(DictFromKeys(reversed(items), <<>>))

\* list(dict.fromkeys(items))
Dedup(items) == DictFromKeys(items, <<>>)

\* the `for policy_type in ["home", "home_2", "auto", "umbrella"]` loop:
\* the lists of the populated slots, one after the other
ExtendFromSlots(bundle, field) ==
    (IF bundle.home.present THEN bundle.home[field] ELSE <<>>)
    \o (IF bundle.home_2.present THEN bundle.home_2[field] ELSE <<>>)
    \o (IF bundle.auto.present THEN bundle.auto[field] ELSE <<>>)
    \o (IF bundle.umbrella.present THEN bundle.umbrella[field] ELSE <<>>)

\* what is listed for one carrier
BundleEndorsements(bundle) ==
    [carrier_name |-> bundle.carrier_name,
     all_endorsements |-> Dedup(ExtendFromSlots(bundle, "endorsements")),
     all_discounts |-> Dedup(ExtendFromSlots(bundle, "discounts_applied"))]

\* add_endorsements_section(carriers): one entry per carrier, in order
AddEndorsementsSection(carriers) ==
    [i \in 1..Len(carriers) |-> BundleEndorsements(carriers[i])]

-----------------------------------------------------------------------------
(* Page geometry of the PDF: where each piece is drawn.  Lengths are in   *)
(* tenths of a millimetre (the Letter page is 215.9 x 279.4 mm); a        *)
(* position is a page number and the y of the cursor on it.               *)

\* self.h of a Letter page in the given orientation
PageHeight(orientation) == IF orientation = "L" THEN 2159 ELSE 2794

\* _footer_margin
FooterMargin == 250

\* _draw_branded_header: self.set_y(44)
FirstPageTop == 440

\* _draw_continuation_header: self.set_y(16)
ContinuationTop == 160

\* pdf.add_page() of generate_comparison_pdf: page 1 with its header drawn
FirstPage == [page |-> 1, y |-> FirstPageTop]

\* add_page() after the first: the continuation header is drawn
AddPage(p) == [page |-> p.page + 1, y |-> ContinuationTop]

\* self.ln(h)
Ln(p, h) == [p EXCEPT !.y = @ + h]

\* _space_remaining
SpaceRemaining(p, page_h) == page_h - p.y - FooterMargin

\* _ensure_space(needed_mm)
EnsureSpace(p, page_h, needed) ==
    IF SpaceRemaining(p, page_h) < needed THEN AddPage(p) ELSE p

\* row_h of the layout (half millimetres) in tenths of a millimetre
RowHeight(layout) == 5 * layout.row_h

\* add_client_section: self.set_y(y_start + 20)
AddClientSection(p) == Ln(p, 200)

\* add_section_title: _ensure_space(20), the title drawn, ln(10)
AddSectionTitle(p, page_h) ==
    LET at == EnsureSpace(p, page_h, 200)
    IN  [at |-> at, next |-> Ln(at, 100)]

\* one row of the comparison table: what its method does to the cursor.
\*   _add_table_header:        _ensure_space(12), cells of 10, ln(10)
\*   _add_section_divider_row: _ensure_space(8), a cell of 6, ln(6); the
\*       home and auto sections call ln(3) first, the umbrella section
\*       _ensure_space(90) and ln(3)
\*   _add_sub_divider_row:     _ensure_space(7), a cell of 5, ln(5)
\*   _add_data_row:            _ensure_space(row_h + 2), cells of row_h, ln(row_h)
\*   _add_total_row:           _ensure_space(row_h + 3), cells of row_h + 2,
\*       ln(row_h + 2)
PlaceRow(p, page_h, row_h, row) ==
    LET before == IF row.kind = "divider" /\ row.label = "UMBRELLA DETAILS"
                  THEN Ln(EnsureSpace(p, page_h, 900), 30)
                  ELSE IF row.kind = "divider" /\ row.label # "PREMIUM SUMMARY"
                  THEN Ln(p, 30)
                  ELSE p
        needed == IF row.kind = "table_header" THEN 120
                  ELSE IF row.kind = "divider" THEN 80
                  ELSE IF row.kind = "sub_divider" THEN 70
                  ELSE IF row.kind = "total" THEN row_h + 30
                  ELSE row_h + 20
        height == IF row.kind = "table_header" THEN 100
                  ELSE IF row.kind = "divider" THEN 60
                  ELSE IF row.kind = "sub_divider" THEN 50
                  ELSE IF row.kind = "total" THEN row_h + 20
                  ELSE row_h
        at == EnsureSpace(before, page_h, needed)
    IN  [at |-> at, next |-> Ln(at, height)]

\* add_comparison_table: the rows placed one after the other from p;
\* `placed` collects where each row was drawn
RECURSIVE PlaceRows(_, _, _, _, _, _)
PlaceRows(rows, i, p, page_h, row_h, placed) ==
    IF i > Len(rows) THEN [placed |-> placed, next |-> p]
    ELSE LET r == PlaceRow(p, page_h, row_h, rows[i])
         IN  PlaceRows(rows, i + 1, r.next, page_h, row_h, Append(placed, r.at))

\* add_endorsements_section, one carrier: _ensure_space(18), the name and
\* ln(6), the endorsements line and ln(4), the discounts line and ln(4) when
\* there are discounts, ln(3)
PlaceCarrierEndorsements(p, page_h, entry) ==
    LET at == EnsureSpace(p, page_h, 180)
        lines == 60 + 40 + (IF entry.all_discounts # <<>> THEN 40 ELSE 0)
    IN  [at |-> at, next |-> Ln(at, lines + 30)]

RECURSIVE PlaceEndorsements(_, _, _, _, _)
PlaceEndorsements(entries, i, p, page_h, placed) ==
    IF i > Len(entries) THEN [placed |-> placed, next |-> p]
    ELSE LET r == PlaceCarrierEndorsements(p, page_h, entries[i])
         IN  PlaceEndorsements(entries, i + 1, r.next, page_h, Append(placed, r.at))

\* generate_comparison_pdf from add_page() to add_endorsements_section: the
\* positions of the "Coverage Comparison" title, of every table row, of the
\* "Endorsements & Discounts" title (after ln(4)) and of every carrier's entry
PlacePdf(layout, rows, endorsements) ==
    LET page_h == PageHeight(layout.orientation)
        title == AddSectionTitle(AddClientSection(FirstPage), page_h)
        table == PlaceRows(rows, 1, title.next, page_h, RowHeight(layout), <<>>)
        endorsements_title == AddSectionTitle(Ln(table.next, 40), page_h)
        listed == PlaceEndorsements(endorsements, 1, endorsements_title.next,
                                    page_h, <<>>)
    IN  [table_title |-> title.at, rows |-> table.placed,
         endorsements_title |-> endorsements_title.at,
         endorsements |-> listed.placed]

\* nothing was placed
NoPlacement ==
    [table_title |-> FirstPage, rows |-> <<>>, endorsements_title |-> FirstPage,
     endorsements |-> <<>>]

-----------------------------------------------------------------------------
(* Exporters *)

NoWorksheet == [status |-> "none", rows |-> 0, cols |-> 0, num_data_cols |-> 0]

NoPdf ==
    [status |-> "none", layout |-> NoLayout, rows |-> <<>>, endorsements |-> <<>>,
     placed |-> NoPlacement]

\* no helper function has been called
NoCall == [fn |-> "none"]

\* no Streamlit script has run
NoSessionState == [current_step |-> 0]

\* SheetsClient.create_comparison: column count, grid and config, a blank
\* worksheet of config.total_rows x (1 + num_data_cols), the grid written
\* at A1.  No step of it looks at the number of carriers.
CreateComparison ==
    LET num_data_cols == GetNumDataColumns(session)
        built == BuildFullGrid(session, num_data_cols)
    IN  /\ grid' = built.grid
        /\ config' = built.config
        /\ worksheet' = [status |-> "created", rows |-> built.config.total_rows,
                         cols |-> 1 + num_data_cols,
                         num_data_cols |-> num_data_cols]
        /\ UNCHANGED <<session, pdf, call, st>>

\* the "Validate carriers" test of generate_comparison_pdf:
\* `not session.carriers or len(session.carriers) > 6`
PdfRejects(s) == Len(s.carriers) = 0 \/ Len(s.carriers) > MaxPdfCarriers

\* generate_comparison_pdf: ValueError before anything is built, else the
\* layout is chosen, the comparison table and the endorsements section are
\* drawn and the file written
GenerateComparisonPdf ==
    /\ pdf' = IF PdfRejects(session)
              THEN [status |-> "error", layout |-> NoLayout, rows |-> <<>>,
                    endorsements |-> <<>>, placed |-> NoPlacement]
              ELSE LET layout == GetLayout(Len(session.carriers),
                                           session.current_policy.present)
                       rows == AddComparisonTable(session)
                       endorsements == AddEndorsementsSection(session.carriers)
                   IN  [status |-> "written", layout |-> layout, rows |-> rows,
                        endorsements |-> endorsements,
                        placed |-> PlacePdf(layout, rows, endorsements)]
    /\ UNCHANGED <<session, grid, config, worksheet, call, st>>

-----------------------------------------------------------------------------
(* Sessions the model is run on *)

\* largest number of carriers in a session (one more than the exporters accept)
MaxCarriers == 7

HomeA ==
    Quote(150000, 100000, None,
          [NoLimits EXCEPT !.dwelling = Num(35000000),
                           !.other_structures = Num(3500000),
                           !.personal_property = Num(17500000),
                           !.personal_liability = Num(30000000),
                           !.medical_payments = Num(500000)],
          <<"A", "B">>, <<"Multi-policy">>)

HomeB ==
    Quote(123450, 0, Num(250000),
          [NoLimits EXCEPT !.dwelling = Num(20000000),
                           !.other_structures = Num(0),
                           !.loss_of_use = Num(4000000),
                           !.personal_liability = Num(50000)],
          <<"B">>, <<>>)

Home2A ==
    Quote(110000, 250000, None,
          [NoLimits EXCEPT !.dwelling = Num(20000050),
                           !.personal_property = Num(10000000)],
          <<"C">>, <<"Multi-policy">>)

AutoA ==
    Quote(120000, 50000, None,
          [NoLimits EXCEPT !.bi_per_person = Num(50000000),
                           !.bi_per_accident = Num(50000000),
                           !.pd_per_accident = Num(25000000),
                           !.um_uim = Num(50000000),
                           !.comprehensive = Num(50000),
                           !.collision = Num(50000)],
          <<"B", "C">>, <<"Safe driver">>)

AutoB ==
    Quote(12340, 0, None,
          [NoLimits EXCEPT !.bi_per_person = Num(10000000),
                           !.csl = Num(100000000),
                           !.comprehensive = Num(0)],
          <<>>, <<>>)

UmbrellaA ==
    Quote(30000, 0, None, [NoLimits EXCEPT !.umbrella_limit = Num(100000000)],
          <<>>, <<>>)

UmbrellaB ==
    Quote(45000, 100000, None, [NoLimits EXCEPT !.umbrella_limit = Num(50000000)],
          <<"A">>, <<>>)

\* the quote slots of a bundle, before it is given its name
FullSlots == [home |-> HomeA, home_2 |-> NoQuote, auto |-> AutoA, umbrella |-> UmbrellaA]
TwoDwellingSlots == [home |-> HomeB, home_2 |-> Home2A, auto |-> AutoB, umbrella |-> UmbrellaB]
HomeOnlySlots == [home |-> HomeB, home_2 |-> NoQuote, auto |-> NoQuote, umbrella |-> NoQuote]

SlotChoices == {FullSlots, TwoDwellingSlots, HomeOnlySlots}

BundleAt(i, slots) ==
    CarrierBundle("Carrier " \o ToString(i), slots.home, slots.home_2,
                  slots.auto, slots.umbrella)

\* the first two carriers each take any of the slot choices; the carriers
\* after them all hold the full bundle
LeadingChoices == SlotChoices \X SlotChoices

SlotsAt(lead, i) == IF i <= Len(lead) THEN lead[i] ELSE FullSlots

CarrierLists ==
    { [i \in 1..n |-> BundleAt(i, SlotsAt(lead, i))]
      : n \in 0..MaxCarriers, lead \in LeadingChoices }

\* a baseline with two dwellings
CurrentTwoDwellings ==
    [NoCurrentPolicy EXCEPT
        !.present = TRUE, !.carrier_name = "State Farm",
        !.home_premium = Num(200000), !.home_dwelling = Num(35000000),
        !.home_deductible = Num(100000),
        !.home_2_premium = Num(110000), !.home_2_dwelling = Num(20000000),
        !.auto_premium = Num(140000), !.auto_limits = Str("500/500/250"),
        !.auto_um_uim = Str("500/500"), !.auto_comp_deductible = Str("$500"),
        !.auto_collision_deductible = Num(50000),
        !.umbrella_premium = Num(37500), !.umbrella_limits = Str("1M CSL"),
        !.umbrella_deductible = Num(0)]

\* a baseline whose dwelling-2 premium is present and 0.0
CurrentZeroDwelling2 ==
    [CurrentTwoDwellings EXCEPT !.home_2_premium = Num(0),
                                !.home_2_dwelling = None]

\* a baseline with one dwelling and no umbrella
CurrentOneDwelling ==
    [CurrentTwoDwellings EXCEPT !.home_2_premium = None, !.home_2_dwelling = None,
                                !.umbrella_premium = None,
                                !.umbrella_limits = None,
                                !.umbrella_deductible = None]

CurrentPolicies ==
    {NoCurrentPolicy, CurrentTwoDwellings, CurrentZeroDwelling2, CurrentOneDwelling}

Categories == {"home", "auto", "umbrella"}

IsInjective(f) == \A i, j \in DOMAIN f : f[i] = f[j] => i = j

\* every list of distinct categories, in every order
SectionLists ==
    UNION { { f \in [1..n -> Categories] : IsInjective(f) } : n \in 0..Cardinality(Categories) }

Sessions ==
    [client_name : {"Test Client"}, date : {"2026-02-14"},
     current_policy : CurrentPolicies, carriers : CarrierLists,
     sections_included : SectionLists]

-----------------------------------------------------------------------------
(* Specification: a session is handed to the two exporters, in any order *)

Init ==
    /\ session \in Sessions
    /\ grid = <<>>
    /\ config = NewGridConfig
    /\ worksheet = NoWorksheet
    /\ pdf = NoPdf
    /\ call = NoCall
    /\ st = NoSessionState

Next == CreateComparison \/ GenerateComparisonPdf

Spec == Init /\ [][Next]_vars

-----------------------------------------------------------------------------
(* Reading a built grid and a drawn table *)

GridBuilt == worksheet.status = "created"

PdfWritten == pdf.status = "written"

Range(seq) == {seq[i] : i \in 1..Len(seq)}

IncludedSet == Range(session.sections_included)

RowLabel(row) == row[1].s

IsBlankRow(row) == \A i \in 1..Len(row) : row[i] = Str("")

IsTitleRow(row) ==
    /\ Len(row) >= 2
    /\ row[1] = Str("")
    /\ row[2] = Str("Quote Comparison - " \o session.client_name)

IsCarrierHeaderRow(row) == RowLabel(row) = "Premium Breakout"

SheetSectionTitles == {"Home Coverage", "Auto Coverage", "Umbrella Coverage"}

IsSectionHeaderRow(row) == RowLabel(row) \in SheetSectionTitles

IsSubHeaderRow(row) == RowLabel(row) \in {"Dwelling 1", "Dwelling 2"}

IsTotalRow(row) == RowLabel(row) = "Total"

\* a premium, coverage or total row: it has a label and is none of the above
IsDataRow(row) ==
    /\ RowLabel(row) # ""
    /\ ~IsCarrierHeaderRow(row)
    /\ ~IsSectionHeaderRow(row)
    /\ ~IsSubHeaderRow(row)

GridRows == 1..Len(grid)

-----------------------------------------------------------------------------
(* C1: the metadata returned by _build_full_grid agrees with the rows it  *)
(* returns: total_rows is the number of rows; every header_rows entry is  *)
(* the title row, the carrier-name row or a section header; every         *)
(* sub_header_rows entry is a Dwelling 1 / Dwelling 2 row; total_row is   *)
(* the one row labelled Total; every currency_rows and even_data_rows     *)
(* entry is a data or total row.  Positions are the code's row numbers    *)
(* (first row = 1).                                                        *)
C1_MetadataMatchesGrid ==
    GridBuilt =>
        /\ config.total_rows = Len(grid)
        /\ \A i \in 1..Len(config.header_rows) :
              LET r == config.header_rows[i]
              IN  /\ r \in GridRows
                  /\ \/ r = 1 /\ IsTitleRow(grid[r])
                     \/ IsCarrierHeaderRow(grid[r])
                     \/ IsSectionHeaderRow(grid[r])
        /\ \A i \in 1..Len(config.sub_header_rows) :
              LET r == config.sub_header_rows[i]
              IN  r \in GridRows /\ IsSubHeaderRow(grid[r])
        /\ config.total_row \in GridRows
        /\ \A r \in GridRows : IsTotalRow(grid[r]) <=> r = config.total_row
        /\ \A i \in 1..Len(config.currency_rows) :
              LET r == config.currency_rows[i]
              IN  r \in GridRows /\ IsDataRow(grid[r])
        /\ \A i \in 1..Len(config.even_data_rows) :
              LET r == config.even_data_rows[i]
              IN  r \in GridRows /\ IsDataRow(grid[r])

\* C1 witness: a two-dwelling grid with a baseline column has been built
C1_Witness ==
    /\ GridBuilt
    /\ session.current_policy.present
    /\ Len(config.sub_header_rows) = 2
    /\ Len(config.header_rows) = 5
    /\ Len(session.carriers) = 3

-----------------------------------------------------------------------------
\* the row counts asserted by test_single_dwelling_row_count and
\* test_multi_dwelling_row_count
SingleDwellingRows == 25
MultiDwellingRows == 34

\* a carrier of the session has a populated home_2 slot
SomeCarrierHasHome2 ==
    \E i \in 1..Len(session.carriers) : session.carriers[i].home_2.present

\* the session holds no dwelling-2 data at all
NoDwelling2Data ==
    /\ ~SomeCarrierHasHome2
    /\ session.current_policy.home_2_premium = None

(* C2: total_rows depends on nothing but the multi-dwelling flag (hence   *)
(* on nothing but (sections_included, flag)): not on the number of        *)
(* carriers, the baseline or any field value.  It is 25 without           *)
(* dwelling-2 data and 34 as soon as one carrier has a home_2 quote.      *)
C2_RowCountFunctionOfShape ==
    GridBuilt =>
        /\ config.total_rows =
              (IF HasMultiDwelling(session) THEN MultiDwellingRows
               ELSE SingleDwellingRows)
        /\ NoDwelling2Data => config.total_rows = SingleDwellingRows
        /\ SomeCarrierHasHome2 =>
              config.total_rows = SingleDwellingRows + 9

\* C2 witness: sections_included = [home], one carrier with a second dwelling
C2_Witness ==
    /\ GridBuilt
    /\ session.sections_included = <<"home">>
    /\ SomeCarrierHasHome2
    /\ ~session.current_policy.present
    /\ config.total_rows = 34

-----------------------------------------------------------------------------
(* C7: for a session of 2 to 6 carriers _get_num_data_columns is the      *)
(* number of carriers, plus one when a current policy is present.         *)
C7_NumDataColumns ==
    (GridBuilt /\ Len(session.carriers) \in 2..6) =>
        worksheet.num_data_cols =
            Len(session.carriers) + (IF session.current_policy.present THEN 1 ELSE 0)

\* C7 witness: six carriers and a baseline give seven data columns
C7_Witness ==
    /\ GridBuilt
    /\ Len(session.carriers) = 6
    /\ session.current_policy.present
    /\ worksheet.num_data_cols = 7


-----------------------------------------------------------------------------
\* the header that opens a category's section in each renderer
SheetTitleOf(cat) ==
    CASE cat = "home" -> "Home Coverage"
      [] cat = "auto" -> "Auto Coverage"
      [] cat = "umbrella" -> "Umbrella Coverage"

PdfTitleOf(cat) ==
    CASE cat = "home" -> "HOME DETAILS"
      [] cat = "auto" -> "AUTO DETAILS"
      [] cat = "umbrella" -> "UMBRELLA DETAILS"

PdfRowNums == 1..Len(pdf.rows)

(* C3: a category outside sections_included has no section in the        *)
(* compiled output - no header (and so no rows under it), in the grid and *)
(* in the PDF table alike.                                                 *)
C3_ExcludedSectionsOmitted ==
    \A cat \in Categories \ IncludedSet :
        /\ GridBuilt =>
              \A r \in GridRows : RowLabel(grid[r]) # SheetTitleOf(cat)
        /\ PdfWritten =>
              \A r \in PdfRowNums :
                  ~(pdf.rows[r].kind = "divider" /\ pdf.rows[r].label = PdfTitleOf(cat))

-----------------------------------------------------------------------------
\* value of an optional premium in a sum: a missing one contributes 0
PremiumOrZero(v) == IF v.k = "num" THEN v.n ELSE 0

QuotePremiumOrZero(q) == IF q.present THEN q.annual_premium ELSE 0

\* sum of a carrier's premiums over the included categories (both dwellings
\* belong to home)
IncludedBundleSum(cb) ==
    (IF "home" \in IncludedSet
     THEN QuotePremiumOrZero(cb.home) + QuotePremiumOrZero(cb.home_2) ELSE 0)
    + (IF "auto" \in IncludedSet THEN QuotePremiumOrZero(cb.auto) ELSE 0)
    + (IF "umbrella" \in IncludedSet THEN QuotePremiumOrZero(cb.umbrella) ELSE 0)

\* the same for the baseline
IncludedCurrentSum(cp) ==
    (IF "home" \in IncludedSet
     THEN PremiumOrZero(cp.home_premium) + PremiumOrZero(cp.home_2_premium) ELSE 0)
    + (IF "auto" \in IncludedSet THEN PremiumOrZero(cp.auto_premium) ELSE 0)
    + (IF "umbrella" \in IncludedSet THEN PremiumOrZero(cp.umbrella_premium) ELSE 0)

\* data column j of a table: the baseline first when there is one, then the
\* carriers in session order
BaselineOffset == IF session.current_policy.present THEN 1 ELSE 0

IsBaselineColumn(j) == session.current_policy.present /\ j = 1

IncludedColumnSum(j) ==
    IF IsBaselineColumn(j) THEN IncludedCurrentSum(session.current_policy)
    ELSE IncludedBundleSum(session.carriers[j - BaselineOffset])

\* the Total row of the drawn PDF table
PdfTotalRows == {r \in PdfRowNums : pdf.rows[r].kind = "total"}

(* C4: every cell of the Total row is the sum of its column's premiums    *)
(* over the categories of sections_included only.                          *)
C4_TotalOverIncludedSections ==
    /\ GridBuilt =>
          \A j \in 1..worksheet.num_data_cols :
              grid[config.total_row][1 + j] = Num(IncludedColumnSum(j))
    /\ PdfWritten =>
          \A r \in PdfTotalRows : \A j \in 1..Len(pdf.rows[r].values) :
              pdf.rows[r].values[j] = FmtCurrency(Num(IncludedColumnSum(j)))

-----------------------------------------------------------------------------
(* C5: a session with fewer than 2 or more than 6 carriers is never       *)
(* compiled: no PDF is written and no worksheet is created for it.        *)
C5_CarrierCountEnforced ==
    Len(session.carriers) \notin 2..6 => (~PdfWritten /\ ~GridBuilt)

-----------------------------------------------------------------------------
\* the grid was built in its two-dwelling shape
GridHasDwelling2 == \E r \in GridRows : RowLabel(grid[r]) = "Dwelling 2"

\* the flag as C6 words it: a dwelling-2 premium that is not None
Dwelling2PremiumPresent ==
    session.current_policy.present /\ session.current_policy.home_2_premium.k # "none"

\* the flag as the code computes it: a dwelling-2 premium that is not None
\* and not 0
Dwelling2PremiumNonZero ==
    /\ session.current_policy.present
    /\ session.current_policy.home_2_premium.k = "num"
    /\ session.current_policy.home_2_premium.n # 0

\* the flag each exporter worked with, once it has run
FlagsAgreeWith(expected) ==
    /\ GridBuilt =>
          /\ HasMultiDwelling(session) <=> expected
          /\ GridHasDwelling2 <=> expected
    /\ PdfWritten =>
          (SessionHasMultiDwelling(session.current_policy, session.carriers)
              <=> expected)

(* C6 as stated: the flag is true iff the current policy's dwelling-2     *)
(* premium is not None, whatever its value, or some carrier has a home_2  *)
(* quote.                                                                  *)
C6_FlagIffPremiumNotNone ==
    FlagsAgreeWith(Dwelling2PremiumPresent \/ SomeCarrierHasHome2)

(* C6 as amended: the flag is true iff the current policy's dwelling-2    *)
(* premium is present and not 0, or some carrier has a home_2 quote.      *)
C6_FlagIffPremiumNonZero ==
    FlagsAgreeWith(Dwelling2PremiumNonZero \/ SomeCarrierHasHome2)

\* C6 witness: both exporters ran on a baseline whose dwelling-2 premium
\* is 0.0 and no carrier has a second dwelling; the grid has one dwelling
C6_Witness ==
    /\ GridBuilt /\ PdfWritten
    /\ session.current_policy.present
    /\ session.current_policy.home_2_premium = Num(0)
    /\ ~SomeCarrierHasHome2
    /\ ~GridHasDwelling2
    /\ config.total_rows = 25

-----------------------------------------------------------------------------
\* the premium rows C8 expects for the session
ExpectedPremiumLabels(is_multi_dw) ==
    (IF "home" \in IncludedSet
     THEN IF is_multi_dw THEN {"Home 1 Premium", "Home 2 Premium"}
          ELSE {"Home Premium"}
     ELSE {})
    \cup (IF "auto" \in IncludedSet THEN {"Auto Premium"} ELSE {})
    \cup (IF "umbrella" \in IncludedSet THEN {"Umbrella Premium"} ELSE {})

\* rows of the grid between the carrier-name row and the Total row
SheetPremiumRows == 4..(config.total_row - 1)

\* rows of the PDF table between the first divider and the Total row
PdfPremiumRows(total) == 3..(total - 1)

(* C8: the Premium Summary opens the compiled output; it holds exactly    *)
(* one premium row per included category (Home 1 and Home 2 under         *)
(* multi-dwelling), none for an excluded category, and ends with the      *)
(* Total row, which is there even when nothing is included.               *)
C8_PremiumSummaryShape ==
    /\ GridBuilt =>
          LET expected == ExpectedPremiumLabels(HasMultiDwelling(session))
          IN  /\ IsTotalRow(grid[config.total_row])
              /\ {RowLabel(grid[r]) : r \in SheetPremiumRows} = expected
              /\ Cardinality(SheetPremiumRows) = Cardinality(expected)
    /\ PdfWritten =>
          LET expected == ExpectedPremiumLabels(
                              SessionHasMultiDwelling(session.current_policy,
                                                      session.carriers))
          IN  /\ pdf.rows[2] = AddSectionDividerRow("PREMIUM SUMMARY")
              /\ Cardinality(PdfTotalRows) = 1
              /\ \A t \in PdfTotalRows :
                    /\ {pdf.rows[r].label : r \in PdfPremiumRows(t)} = expected
                    /\ \A r \in PdfPremiumRows(t) : pdf.rows[r].kind = "data"
                    /\ Cardinality(PdfPremiumRows(t)) = Cardinality(expected)

-----------------------------------------------------------------------------
\* sections_included rewritten in the order home, auto, umbrella
CanonicalOrder(sections) ==
    SelectSeq(<<"home", "auto", "umbrella">>, LAMBDA c : InList(c, sections))

\* the session with its categories listed in canonical order
CanonicalSession == [session EXCEPT !.sections_included = CanonicalOrder(@)]

\* labels of the section dividers of the PDF table, in drawing order
PdfDividerLabels ==
    LET d == SelectSeq(pdf.rows, LAMBDA row : row.kind = "divider")
    IN  [i \in 1..Len(d) |-> d[i].label]

\* labels of the section headers of the grid, in row order
SheetSectionLabels ==
    LET h == SelectSeq(grid, LAMBDA row : IsSectionHeaderRow(row))
    IN  [i \in 1..Len(h) |-> RowLabel(h[i])]

(* C9: the body sections come in the order home, auto, umbrella whatever  *)
(* the order of sections_included: what was compiled is what the session  *)
(* with the same categories listed in canonical order compiles to (so any *)
(* two orderings of the same categories compile to the same rows).        *)
C9_SectionOrderFixed ==
    /\ GridBuilt =>
          /\ BuildFullGrid(CanonicalSession, GetNumDataColumns(CanonicalSession))
                = [grid |-> grid, config |-> config]
          /\ SheetSectionLabels
                = <<"Home Coverage", "Auto Coverage", "Umbrella Coverage">>
    /\ PdfWritten =>
          /\ AddComparisonTable(CanonicalSession) = pdf.rows
          /\ PdfDividerLabels
                = <<"PREMIUM SUMMARY">>
                  \o [i \in 1..Len(session.sections_included) |->
                        PdfTitleOf(CanonicalOrder(session.sections_included)[i])]

\* C9 witness: the categories are listed umbrella, auto, home and both
\* exporters ran
C9_Witness ==
    /\ GridBuilt /\ PdfWritten
    /\ session.sections_included = <<"umbrella", "auto", "home">>
    /\ PdfDividerLabels
          = <<"PREMIUM SUMMARY", "HOME DETAILS", "AUTO DETAILS", "UMBRELLA DETAILS">>

-----------------------------------------------------------------------------
\* total premium of data column j, whatever the sections
ColumnTotal(j) ==
    IF IsBaselineColumn(j) THEN CurrentTotalPremium(session.current_policy)
    ELSE BundleTotalPremium(session.carriers[j - BaselineOffset])

\* name heading data column j
ColumnName(j) ==
    IF IsBaselineColumn(j) THEN session.current_policy.carrier_name
    ELSE session.carriers[j - BaselineOffset].carrier_name

\* number of data columns of the PDF table
PdfNumDataColumns == Len(session.carriers) + BaselineOffset

(* C10: every data row (premium, coverage, total) of either renderer has  *)
(* exactly numDataColumns value cells; the cells are the baseline first,  *)
(* when and only when there is one, then the carriers in session order    *)
(* (read off the Total row and the PDF column header).                     *)
C10_OneCellPerDataColumn ==
    /\ GridBuilt =>
          /\ \A r \in GridRows :
                IsDataRow(grid[r]) => Len(grid[r]) = 1 + worksheet.num_data_cols
          /\ \A j \in 1..worksheet.num_data_cols :
                grid[config.total_row][1 + j] = Num(ColumnTotal(j))
    /\ PdfWritten =>
          /\ \A r \in PdfRowNums :
                pdf.rows[r].kind \in {"data", "total"}
                    => Len(pdf.rows[r].values) = PdfNumDataColumns
          /\ \A r \in PdfTotalRows : \A j \in 1..PdfNumDataColumns :
                pdf.rows[r].values[j] = FmtCurrency(Num(ColumnTotal(j)))
          /\ \A j \in 1..PdfNumDataColumns : pdf.rows[1].values[j] = ColumnName(j)

\* C10 witness: a baseline column, a row for a field the baseline has no
\* slot for, and a carrier without an auto quote in a drawn auto section
C10_Witness ==
    /\ GridBuilt /\ PdfWritten
    /\ session.current_policy.present
    /\ IncludedSet = Categories
    /\ Len(session.carriers) = 3
    /\ ~session.carriers[2].auto.present
    /\ \E r \in PdfRowNums :
          /\ pdf.rows[r].label = "Medical Payments (F)"
          /\ pdf.rows[r].values[1] = "-"
          /\ Len(pdf.rows[r].values) = 4

-----------------------------------------------------------------------------
\* the field a home row of the PDF table looks up on a carrier's dwelling-1
\* quote; None when the slot is empty
HomeFieldLookedUp(cb, carrier_key) ==
    IF ~cb.home.present THEN None
    ELSE IF carrier_key = "deductible" THEN Num(cb.home.deductible)
    ELSE IF carrier_key = "wind_hail_deductible" THEN cb.home.wind_hail_deductible
    ELSE cb.home.coverage_limits[carrier_key]

\* the field a home row of the PDF table looks up on the baseline; None
\* when CurrentPolicy has no such field
CurrentFieldLookedUp(cp, current_key) ==
    IF current_key = "" THEN None ELSE cp[current_key]

\* first data row of the drawn PDF table with the given label (0 if none);
\* for a home row this is the row of dwelling 1
PdfFirstDataRow(label) ==
    LET hits == {r \in PdfRowNums :
                    pdf.rows[r].kind = "data" /\ pdf.rows[r].label = label}
    IN  IF hits = {} THEN 0
        ELSE CHOOSE r \in hits : \A q \in hits : r <= q

\* the carriers the grid has a column for
SheetCarrierNums ==
    1..(IF Len(session.carriers) < MaxSheetCarriers
        THEN Len(session.carriers) ELSE MaxSheetCarriers)

(* C11: in a data row of an included section a cell is "-" exactly when   *)
(* the column's quote slot (or baseline field) is absent or None; a       *)
(* present value, 0 included, is formatted.  Stated for the dwelling-1    *)
(* home rows and the umbrella Deductible row of the PDF table and for the *)
(* umbrella Deductible row of the grid.                                    *)
C11_SentinelIffAbsent ==
    /\ (PdfWritten /\ "home" \in IncludedSet) =>
          \A i \in 1..Len(home_rows) :
              LET r == PdfFirstDataRow(home_rows[i][1])
              IN  /\ r # 0
                  /\ session.current_policy.present =>
                        (pdf.rows[r].values[1] = "-"
                            <=> IsNone(CurrentFieldLookedUp(session.current_policy,
                                                            home_rows[i][3])))
                  /\ \A j \in 1..Len(session.carriers) :
                        pdf.rows[r].values[BaselineOffset + j] = "-"
                            <=> IsNone(HomeFieldLookedUp(session.carriers[j],
                                                         home_rows[i][2]))
    /\ (PdfWritten /\ "umbrella" \in IncludedSet) =>
          LET r == PdfFirstDataRow("Deductible")
          IN  /\ r # 0
              /\ \A j \in 1..Len(session.carriers) :
                    pdf.rows[r].values[BaselineOffset + j] = "-"
                        <=> ~session.carriers[j].umbrella.present
    /\ (GridBuilt /\ "umbrella" \in IncludedSet) =>
          \A j \in SheetCarrierNums :
              grid[config.total_rows][1 + BaselineOffset + j] = Str("-")
                  <=> ~session.carriers[j].umbrella.present

-----------------------------------------------------------------------------
(* Helper functions called on their own.  A second specification, SpecFn, *)
(* calls one helper, once, on an argument drawn from a bounded set and   *)
(* records the call; the exporters' variables stay as constructed.        *)

\* the session SpecFn starts with (no exporter runs in it)
IdleSession ==
    [client_name |-> "Test Client", date |-> "2026-02-14",
     current_policy |-> NoCurrentPolicy, carriers |-> <<>>,
     sections_included |-> <<>>]

InitFn ==
    /\ session = IdleSession
    /\ grid = <<>>
    /\ config = NewGridConfig
    /\ worksheet = NoWorksheet
    /\ pdf = NoPdf
    /\ call = NoCall
    /\ st = NoSessionState

\* largest number of whole thousands of dollars among the amounts formatted
MaxThousands == 3

\* amounts in cents: around the 1000-dollar threshold and around the
\* half-dollar tie
DollarTails == {0, 1, 123, 234, 235, 999}
CentTails == {0, 40, 49, 50, 51, 99}
Amounts ==
    {(k * 1000 + d) * 100 + c : k \in 0..MaxThousands, d \in DollarTails, c \in CentTails}

CurrencyInputs == {None} \cup {Num(a) : a \in Amounts}

\* SciotoComparisonPDF._fmt_currency(value)
CallFmtCurrency ==
    /\ call = NoCall
    /\ \E v \in CurrencyInputs :
          call' = [fn |-> "_fmt_currency", arg |-> v, result |-> FmtCurrency(v)]
    /\ UNCHANGED <<session, grid, config, worksheet, pdf, st>>

\* whole dollars of an amount in cents, a half dollar rounded up
RoundHalfUpDollars(c) == (c + 50) \div 100

(* C12: _fmt_currency gives "-" for None; whole dollars with thousands    *)
(* separators for v >= 1000, rounded so that 1234.5 gives "$1,235"; two   *)
(* decimals for v < 1000 (123.4 gives "$123.40").                         *)
C12_FmtCurrencyRoundsHalfUp ==
    call.fn = "_fmt_currency" =>
        /\ call.arg = None => call.result = "-"
        /\ (call.arg.k = "num" /\ call.arg.n >= 100000) =>
              call.result = "$" \o Thousands(RoundHalfUpDollars(call.arg.n))
        /\ (call.arg.k = "num" /\ call.arg.n < 100000) =>
              call.result = "$" \o TwoDecimals(call.arg.n)
        /\ call.arg = Num(123450) => call.result = "$1,235"
        /\ call.arg = Num(12340) => call.result = "$123.40"

-----------------------------------------------------------------------------
\* split limits and CSLs in cents: absent, 0, 500,000, 250,500 (not a whole
\* number of thousands), and CSLs on both sides of 1,000,000
SplitLimitInputs == {None, Num(0), Num(50000000), Num(25050000)}
CslInputs == {None, Num(0), Num(50000000), Num(100000000), Num(150000000)}

\* an auto quote with the given liability limits
AutoQuoteWith(bi_p, bi_a, pd_a, csl) ==
    [AutoA EXCEPT !.coverage_limits =
        [NoLimits EXCEPT !.bi_per_person = bi_p, !.bi_per_accident = bi_a,
                         !.pd_per_accident = pd_a, !.csl = csl]]

\* _get_auto_limits(quote), the Sheets and the PDF implementation
CallGetAutoLimits ==
    /\ call = NoCall
    /\ \E bi_p \in SplitLimitInputs, bi_a \in SplitLimitInputs,
          pd_a \in SplitLimitInputs, csl \in CslInputs :
          LET quote == AutoQuoteWith(bi_p, bi_a, pd_a, csl)
          IN  call' = [fn |-> "_get_auto_limits", arg |-> quote,
                       sheets |-> SheetsGetAutoLimits(quote),
                       pdf |-> PdfGetAutoLimits(quote)]
    /\ UNCHANGED <<session, grid, config, worksheet, pdf, st>>

\* "{bi_per_person/1000}/{bi_per_accident/1000}/{pd_per_accident/1000}",
\* truncated (amounts in cents)
SplitText(cl) ==
    ToString(cl.bi_per_person.n \div 100000) \o "/"
    \o ToString(cl.bi_per_accident.n \div 100000) \o "/"
    \o ToString(cl.pd_per_accident.n \div 100000)

\* "{csl/1,000,000}M CSL" from 1,000,000 up, "{csl/1000}K CSL" below
CslMorK(csl) ==
    IF csl.n >= 100000000 THEN ToString(csl.n \div 100000000) \o "M CSL"
    ELSE ToString(csl.n \div 100000) \o "K CSL"

\* both implementations returned the text
BothAutoLimitsAre(text) == call.sheets = text /\ call.pdf = text

(* C13 as stated: the split text whenever the three split limits are not  *)
(* None, even with a CSL; else the CSL text when the CSL is not None;     *)
(* else "-".                                                               *)
C13_AutoLimitsWhenNotNone ==
    call.fn = "_get_auto_limits" =>
        LET cl == call.arg.coverage_limits
        IN  BothAutoLimitsAre(
              IF cl.bi_per_person.k # "none" /\ cl.bi_per_accident.k # "none"
                 /\ cl.pd_per_accident.k # "none"
              THEN SplitText(cl)
              ELSE IF cl.csl.k # "none" THEN CslMorK(cl.csl)
              ELSE "-")

(* C13 as amended: the split text whenever the three split limits are     *)
(* present and not 0, even with a CSL; else the CSL text when the CSL is  *)
(* present and not 0; else "-".  Both implementations agree.              *)
C13_AutoLimitsWhenNonZero ==
    call.fn = "_get_auto_limits" =>
        LET cl == call.arg.coverage_limits
            present(v) == v.k = "num" /\ v.n # 0
        IN  BothAutoLimitsAre(
              IF present(cl.bi_per_person) /\ present(cl.bi_per_accident)
                 /\ present(cl.pd_per_accident)
              THEN SplitText(cl)
              ELSE IF present(cl.csl) THEN CslMorK(cl.csl)
              ELSE "-")

\* C13 witness: a split limit of 0 with the other two present and a CSL of
\* 1,500,000: both implementations fall through to the CSL text
C13_Witness ==
    /\ call.fn = "_get_auto_limits"
    /\ call.arg.coverage_limits.bi_per_person = Num(0)
    /\ call.arg.coverage_limits.bi_per_accident = Num(50000000)
    /\ call.arg.coverage_limits.pd_per_accident = Num(25050000)
    /\ call.arg.coverage_limits.csl = Num(150000000)
    /\ BothAutoLimitsAre("1M CSL")

-----------------------------------------------------------------------------
\* largest umbrella limit tried, in steps of 250,000 dollars
MaxUmbrellaQuarters == 8

\* umbrella limits in cents: absent, 0, 250,000, ..., on both sides of
\* 1,000,000, and one amount below 1000 dollars
UmbrellaLimitInputs ==
    {None, Num(50000)} \cup {Num(q * 25000000) : q \in 0..MaxUmbrellaQuarters}

\* an umbrella quote with the given limit
UmbrellaQuoteWith(limit) ==
    [UmbrellaA EXCEPT !.coverage_limits = [NoLimits EXCEPT !.umbrella_limit = limit]]

\* _get_umbrella_limits(quote), the Sheets and the PDF implementation
CallGetUmbrellaLimits ==
    /\ call = NoCall
    /\ \E limit \in UmbrellaLimitInputs :
          LET quote == UmbrellaQuoteWith(limit)
          IN  call' = [fn |-> "_get_umbrella_limits", arg |-> quote,
                       sheets |-> SheetsUmbrellaLimits(quote),
                       pdf |-> PdfUmbrellaLimits(quote)]
    /\ UNCHANGED <<session, grid, config, worksheet, pdf, st>>

\* "{limit/1,000,000 truncated}M CSL" (limit in cents)
MillionsText(limit) == ToString(limit.n \div 100000000) \o "M CSL"

\* the rendering C14 describes: "-" only when absent, "XM CSL" from
\* 1,000,000 up, the _fmt_currency string below
UmbrellaTextAsStated(limit) ==
    IF limit.k = "none" THEN "-"
    ELSE IF limit.n >= 100000000 THEN MillionsText(limit)
    ELSE FmtCurrency(limit)

(* C14 as stated: both implementations give "XM CSL" from 1,000,000 up,   *)
(* the currency-formatted string below, "-" only when the limit is        *)
(* absent, and the Sheets and PDF results are equal for every quote.      *)
C14_UmbrellaLimitsEqual ==
    call.fn = "_get_umbrella_limits" =>
        LET limit == call.arg.coverage_limits.umbrella_limit
        IN  /\ call.pdf = UmbrellaTextAsStated(limit)
            /\ call.sheets = Str(UmbrellaTextAsStated(limit))

(* C14 as amended: the PDF implementation renders as stated; the Sheets   *)
(* implementation gives the same "XM CSL" text from 1,000,000 up, the raw *)
(* number (no currency string) for a non-zero limit below 1,000,000, and  *)
(* "-" when the limit is absent or 0; the two results are equal exactly   *)
(* when the limit is absent or at least 1,000,000.                         *)
C14_UmbrellaLimitsSheetsRaw ==
    call.fn = "_get_umbrella_limits" =>
        LET limit == call.arg.coverage_limits.umbrella_limit
        IN  /\ call.pdf = UmbrellaTextAsStated(limit)
            /\ call.sheets =
                  (IF limit.k = "none" \/ limit.n = 0 THEN Str("-")
                   ELSE IF limit.n >= 100000000 THEN Str(MillionsText(limit))
                   ELSE limit)
            /\ (call.sheets = Str(call.pdf))
                  <=> (limit.k = "none" \/ limit.n >= 100000000)

\* C14 witness: a limit of 500,000 is "$500,000" in the PDF and the number
\* 500000 in the grid
C14_Witness ==
    /\ call.fn = "_get_umbrella_limits"
    /\ call.arg.coverage_limits.umbrella_limit = Num(50000000)
    /\ call.pdf = "$500,000"
    /\ call.sheets = Num(50000000)

-----------------------------------------------------------------------------
\* a quote slot for the endorsements section: empty, or a quote with one of
\* four (endorsements, discounts) lists, some with repeats inside the list
ListedQuotes ==
    {NoQuote}
    \cup {[HomeA EXCEPT !.endorsements = p[1], !.discounts_applied = p[2]] :
            p \in { << <<"A", "B">>, <<"X">> >>,
                    << <<"B", "C">>, <<"Y", "X">> >>,
                    << <<"C", "A", "C">>, <<>> >>,
                    << <<>>, <<"Y", "X", "Y">> >> }}

\* add_endorsements_section on one carrier bundle
CallAddEndorsementsSection ==
    /\ call = NoCall
    /\ \E h \in ListedQuotes, h2 \in ListedQuotes, a \in ListedQuotes,
          u \in ListedQuotes :
          LET bundle == [carrier_name |-> "Carrier 1", home |-> h, home_2 |-> h2,
                         auto |-> a, umbrella |-> u]
          IN  call' = [fn |-> "add_endorsements_section", arg |-> bundle,
                       result |-> AddEndorsementsSection(<<bundle>>)[1]]
    /\ UNCHANGED <<session, grid, config, worksheet, pdf, st>>

\* the list of a slot, empty for an empty slot
SlotList(bundle, slot, field) ==
    IF bundle[slot].present THEN bundle[slot][field] ELSE <<>>

\* the lists of the slots in the order home, home_2, auto, umbrella
SlotListsInOrder(bundle, field) ==
    SlotList(bundle, "home", field) \o SlotList(bundle, "home_2", field)
    \o SlotList(bundle, "auto", field) \o SlotList(bundle, "umbrella", field)

\* position of the first occurrence of x in a list that holds it
FirstIndex(x, items) ==
    CHOOSE i \in 1..Len(items) :
        items[i] = x /\ \A j \in 1..(i - 1) : items[j] # x

\* shown is input without its repeats, every item at its first occurrence
IsFirstSeenDedup(shown, input) ==
    /\ \A i, j \in 1..Len(shown) : i # j => shown[i] # shown[j]
    /\ Range(shown) = Range(input)
    /\ \A i, j \in 1..Len(shown) :
          i < j => FirstIndex(shown[i], input) < FirstIndex(shown[j], input)

(* C15: the endorsement list and the discount list shown for a bundle are *)
(* the lists of its populated slots in the order home, home_2, auto,      *)
(* umbrella, without repeats and in first-seen order ([A,B] and [B,C]     *)
(* give [A,B,C]).                                                          *)
C15_EndorsementsFirstSeenDedup ==
    call.fn = "add_endorsements_section" =>
        /\ IsFirstSeenDedup(call.result.all_endorsements,
                            SlotListsInOrder(call.arg, "endorsements"))
        /\ IsFirstSeenDedup(call.result.all_discounts,
                            SlotListsInOrder(call.arg, "discounts_applied"))
        /\ SlotListsInOrder(call.arg, "endorsements") = <<"A", "B", "B", "C">>
              => call.result.all_endorsements = <<"A", "B", "C">>

\* C15 witness: home lists [A,B], auto lists [B,C], the other slots are
\* empty, and [A,B,C] is shown
C15_Witness ==
    /\ call.fn = "add_endorsements_section"
    /\ call.arg.home.present /\ call.arg.home.endorsements = <<"A", "B">>
    /\ ~call.arg.home_2.present
    /\ call.arg.auto.present /\ call.arg.auto.endorsements = <<"B", "C">>
    /\ ~call.arg.umbrella.present
    /\ call.result.all_endorsements = <<"A", "B", "C">>
    /\ call.result.all_discounts = <<"X", "Y">>

-----------------------------------------------------------------------------
(* Repeated exports.  A third specification, SpecRecompile, lets the      *)
(* export stage build a session and hand it to create_comparison several  *)
(* times (a SheetsClient per export), and logs what each one returned.  *)

\* number of compilations in a behaviour
MaxCompilations == 3

\* the sessions exported: two carriers, with or without a second dwelling,
\* with or without a baseline, two section lists
CompileSessions ==
    [client_name : {"Test Client"}, date : {"2026-02-14"},
     current_policy : {NoCurrentPolicy, CurrentTwoDwellings},
     carriers : { <<BundleAt(1, FullSlots), BundleAt(2, HomeOnlySlots)>>,
                  <<BundleAt(1, TwoDwellingSlots), BundleAt(2, FullSlots)>> },
     sections_included : { <<"home">>, <<"umbrella", "auto", "home">> }]

InitRecompile ==
    /\ session = IdleSession
    /\ grid = <<>>
    /\ config = NewGridConfig
    /\ worksheet = NoWorksheet
    /\ pdf = NoPdf
    /\ call = [fn |-> "_build_full_grid", log |-> <<>>]
    /\ st = NoSessionState

\* render_export_stage, "Export to Google Sheets": the session is built and
\* passed to create_comparison
ExportToSheets ==
    /\ Len(call.log) < MaxCompilations
    /\ \E s \in CompileSessions :
          LET num_data_cols == GetNumDataColumns(s)
              built == BuildFullGrid(s, num_data_cols)
          IN  /\ session' = s
              /\ grid' = built.grid
              /\ config' = built.config
              /\ worksheet' = [status |-> "created", rows |-> built.config.total_rows,
                               cols |-> 1 + num_data_cols,
                               num_data_cols |-> num_data_cols]
              /\ call' = [call EXCEPT !.log =
                            Append(@, [session |-> s, grid |-> built.grid,
                                       config |-> built.config])]
    /\ UNCHANGED <<pdf, st>>

NextRecompile == ExportToSheets

SpecRecompile == InitRecompile /\ [][NextRecompile]_vars

-----------------------------------------------------------------------------
\* first row of the contiguous run of data rows that row r belongs to
BlockStartOf(r) ==
    CHOOSE q \in 1..r :
        /\ \A k \in q..r : IsDataRow(grid[k])
        /\ (q = 1 \/ ~IsDataRow(grid[q - 1]))

\* rows selected for alternating shading
ShadedRows == Range(config.even_data_rows)

(* C17: even_data_rows holds exactly the 1st, 3rd, 5th, ... row of every  *)
(* contiguous block of data rows, each row once; parity restarts at the   *)
(* first row of each block.                                                *)
C17_ShadingRestartsPerBlock ==
    GridBuilt =>
        /\ \A r \in GridRows :
              r \in ShadedRows
                  <=> (IsDataRow(grid[r]) /\ (r - BlockStartOf(r)) % 2 = 0)
        /\ ShadedRows \subseteq GridRows
        /\ Cardinality(ShadedRows) = Len(config.even_data_rows)

\* C17 witness: a two-dwelling grid; the Dwelling 1 block is shaded at the
\* even rows 12, 14, 16 and the Dwelling 2 block at the odd rows 19, 21,
\* 23: no single parity of the row number selects both
C17_Witness ==
    /\ GridBuilt
    /\ config.total_rows = 34
    /\ ShadedRows = {4, 6, 8, 12, 14, 16, 19, 21, 23, 27, 29, 33}

-----------------------------------------------------------------------------
\* one call of _get_layout with its number of data columns
LayoutCall(num_carriers, has_current) ==
    [num_carriers |-> num_carriers, has_current |-> has_current,
     cols |-> num_carriers + (IF has_current THEN 1 ELSE 0),
     layout |-> GetLayout(num_carriers, has_current)]

\* _get_layout called for two sessions: 1..6 carriers, with or without a
\* current policy
CallGetLayout ==
    /\ call = NoCall
    /\ \E n1 \in 1..MaxPdfCarriers, n2 \in 1..MaxPdfCarriers,
          c1 \in BOOLEAN, c2 \in BOOLEAN :
          call' = [fn |-> "_get_layout", a |-> LayoutCall(n1, c1),
                   b |-> LayoutCall(n2, c2)]
    /\ UNCHANGED <<session, grid, config, worksheet, pdf, st>>

\* the two calls are for column counts a < b within 2..7
LayoutPairInRange ==
    /\ call.fn = "_get_layout"
    /\ call.a.cols \in 2..7 /\ call.b.cols \in 2..7
    /\ call.a.cols < call.b.cols

\* header and body font do not grow from a to b
FontsDoNotGrow ==
    /\ call.b.layout.header_font <= call.a.layout.header_font
    /\ call.b.layout.body_font <= call.a.layout.body_font

(* C18 as stated: for column counts a < b in 2..7 the label width, the    *)
(* header font and the body font at b are at most those at a.             *)
C18_LayoutMonotone ==
    LayoutPairInRange =>
        /\ call.b.layout.label_w <= call.a.layout.label_w
        /\ FontsDoNotGrow

(* C18 as amended: for column counts a < b in 2..7 the header and body    *)
(* fonts at b are at most those at a; the page is portrait up to 5        *)
(* columns and landscape from 6; the label width at b is at most that at  *)
(* a when both are on the same orientation, and it grows from 48 to 50    *)
(* where the page turns to landscape (5 to 6 columns).                    *)
C18_LayoutMonotoneWithinOrientation ==
    LayoutPairInRange =>
        /\ FontsDoNotGrow
        /\ call.a.layout.orientation = (IF call.a.cols <= 5 THEN "P" ELSE "L")
        /\ call.b.layout.orientation = (IF call.b.cols <= 5 THEN "P" ELSE "L")
        /\ call.a.layout.orientation = call.b.layout.orientation
              => call.b.layout.label_w <= call.a.layout.label_w
        /\ (call.a.cols = 5 /\ call.b.cols = 6)
              => (call.a.layout.label_w = 48 /\ call.b.layout.label_w = 50)

\* C18 witness: 5 columns against 6 columns, the label column widens
C18_Witness ==
    /\ LayoutPairInRange
    /\ call.a.cols = 5 /\ call.b.cols = 6
    /\ call.a.layout.label_w < call.b.layout.label_w
    /\ call.a.layout.orientation = "P" /\ call.b.layout.orientation = "L"

-----------------------------------------------------------------------------
(* Extraction pipeline: validate_quote and extract_and_validate_multi.    *)
(* An extracted quote is a record of the fields the validator reads.      *)
(* Warnings are kept as short tags in the order they are appended.        *)

\* VALID_DEDUCTIBLES, in cents
VALID_DEDUCTIBLES == {25000, 50000, 100000, 250000, 500000, 1000000}

VALID_CONFIDENCE == {"high", "medium", "low"}

\* `annual_premium >= 50_000`, in cents
PremiumTooHigh == 5000000

\* date.fromisoformat accepts the string (YYYY-MM-DD among the dates tried)
IsIsoDate(text) == text \in {"2026-01-01", "2026-02-14"}

\* the attributes of CoverageLimits: the fourteen declared fields; the
\* pydantic BaseModel it derives from has no dict methods such as items()
CoverageLimitsAttributes == DOMAIN NoLimits

\* an exception left the function
Raised(exc) == [raised |-> TRUE, error |-> exc]

\* checks 1-3 of validate_quote
WarningsBeforeLimits(quote) ==
    (IF quote.carrier_name = "" THEN <<"Missing carrier name">> ELSE <<>>)
    \o (IF quote.annual_premium <= 0 THEN <<"Annual premium is non-positive">>
        ELSE IF quote.annual_premium >= PremiumTooHigh
             THEN <<"Annual premium seems too high">>
        ELSE <<>>)
    \o (IF quote.deductible \notin VALID_DEDUCTIBLES
        THEN <<"Non-standard deductible">> ELSE <<>>)

\* check 4, were coverage_limits iterable by items(): the fields that hold
\* a number <= 0 (one warning each)
WarningsForLimits(quote) ==
    IF \E key \in DOMAIN quote.coverage_limits :
           quote.coverage_limits[key].k = "num" /\ quote.coverage_limits[key].n <= 0
    THEN <<"Coverage limit is non-positive">> ELSE <<>>

\* checks 5 and 6
WarningsAfterLimits(quote) ==
    (IF quote.effective_date.k # "none" /\ ~IsIsoDate(quote.effective_date.s)
     THEN <<"Invalid effective date format">> ELSE <<>>)
    \o (IF quote.confidence \notin VALID_CONFIDENCE
        THEN <<"Invalid confidence, defaulted to 'low'">> ELSE <<>>)

\* validate_quote(quote): checks 1-3, then `quote.coverage_limits.items()`,
\* which raises AttributeError on a CoverageLimits; past it, checks 4-6 and
\* the return of (quote, warnings)
ValidateQuote(quote) ==
    IF "items" \notin CoverageLimitsAttributes THEN Raised("AttributeError")
    ELSE [raised |-> FALSE,
          quote |-> IF quote.confidence \notin VALID_CONFIDENCE
                    THEN [quote EXCEPT !.confidence = "low"] ELSE quote,
          warnings |-> WarningsBeforeLimits(quote) \o WarningsForLimits(quote)
                       \o WarningsAfterLimits(quote)]

\* InsuranceQuote as extracted
ExtractedQuote(carrier_name, policy_type, premium, ded, limits, eff, confidence) ==
    [carrier_name |-> carrier_name, policy_type |-> policy_type,
     annual_premium |-> premium, deductible |-> ded, coverage_limits |-> limits,
     effective_date |-> eff, confidence |-> confidence]

\* the quotes validated: with and without each trigger of a warning
ExtractedQuotes ==
    {ExtractedQuote(name, "HO3", premium, ded, limits, eff, conf) :
        name \in {"", "Test Carrier"},
        premium \in {0 - 10000, 0, 120000, 5000000},
        ded \in {0, 75000, 100000},
        limits \in {NoLimits, [NoLimits EXCEPT !.dwelling = Num(30000000)],
                    [NoLimits EXCEPT !.dwelling = Num(0)]},
        eff \in {None, Str("2026-01-01"), Str("01/01/2026")},
        conf \in {"high", "low", "certain"}}

\* validate_quote(quote)
CallValidateQuote ==
    /\ call = NoCall
    /\ \E quote \in ExtractedQuotes :
          call' = [fn |-> "validate_quote", arg |-> quote,
                   result |-> ValidateQuote(quote)]
    /\ UNCHANGED <<session, grid, config, worksheet, pdf, st>>

(* C19: validate_quote never rejects: for every quote it returns the      *)
(* quote with a list of warnings, raises nothing, and the returned        *)
(* quote's confidence is high, medium or low.                              *)
C19_ValidateNeverRejects ==
    call.fn = "validate_quote" =>
        /\ ~call.result.raised
        /\ call.result.quote.confidence \in VALID_CONFIDENCE
        /\ [call.result.quote EXCEPT !.confidence = call.arg.confidence] = call.arg

-----------------------------------------------------------------------------
\* the user-visible count-mismatch warning ("... but only extracted N ...")
CountMismatchWarning(n) == "only extracted " \o ToString(n)

\* the `for quote in quotes` loop: the first validate_quote that raises
\* ends it; otherwise the validated quotes and all their warnings
RECURSIVE ValidateAll(_, _, _)
ValidateAll(quotes, validated_quotes, all_warnings) ==
    IF quotes = <<>>
    THEN [raised |-> FALSE, quotes |-> validated_quotes, warnings |-> all_warnings]
    ELSE LET v == ValidateQuote(Head(quotes))
         IN  IF v.raised THEN v
             ELSE ValidateAll(Tail(quotes), Append(validated_quotes, v.quote),
                              all_warnings \o v.warnings)

\* extract_and_validate_multi; `extraction` is what extract_multi_quote_data
\* did (raised, or returned a list of quotes), expected_policy_types is <<>>
\* for None or an empty list.  Any exception ends in success=False.
ExtractAndValidateMulti(extraction, expected_policy_types) ==
    IF extraction.raised
    THEN [success |-> FALSE, quotes |-> <<>>, warnings |-> <<>>,
          error |-> extraction.error]
    ELSE LET quotes == extraction.quotes
             mismatch == expected_policy_types # <<>>
                         /\ Len(quotes) < Len(expected_policy_types)
             all_warnings == IF mismatch
                             THEN <<CountMismatchWarning(Len(quotes))>> ELSE <<>>
             done == ValidateAll(quotes, <<>>, all_warnings)
         IN  IF done.raised
             THEN [success |-> FALSE, quotes |-> <<>>, warnings |-> <<>>,
                   error |-> done.error]
             ELSE [success |-> TRUE, quotes |-> done.quotes,
                   warnings |-> done.warnings, error |-> ""]

\* quotes a combined PDF yields
CombinedHome ==
    ExtractedQuote("Test Carrier", "HO3", 120000, 100000, NoLimits, None, "high")
CombinedUmbrella ==
    ExtractedQuote("Test Carrier", "Umbrella", 35000, 100000, NoLimits, None, "high")

\* outcomes of extract_multi_quote_data: an exception, or 0 to 2 quotes
Extractions ==
    {Raised("ValueError")}
    \cup {[raised |-> FALSE, quotes |-> qs] :
            qs \in { <<>>, <<CombinedHome>>, <<CombinedUmbrella>>,
                     <<CombinedHome, CombinedUmbrella>> }}

\* expected_policy_types: None, or the types selected for the carrier
ExpectedPolicyTypes ==
    { <<>>, <<"home">>, <<"home", "umbrella">>, <<"home", "auto", "umbrella">> }

\* extract_and_validate_multi(pdf_bytes, filename, carrier_name, expected)
CallExtractAndValidateMulti ==
    /\ call = NoCall
    /\ \E extraction \in Extractions, expected \in ExpectedPolicyTypes :
          call' = [fn |-> "extract_and_validate_multi", extraction |-> extraction,
                   expected |-> expected,
                   result |-> ExtractAndValidateMulti(extraction, expected)]
    /\ UNCHANGED <<session, grid, config, worksheet, pdf, st>>

(* C20: whenever extraction returns, extract_and_validate_multi returns   *)
(* success=True with every extracted quote, even when fewer quotes than   *)
(* expected were extracted; the warnings hold the count-mismatch warning  *)
(* exactly when fewer quotes than expected policy types were extracted.   *)
C20_MultiSucceedsWithFewerQuotes ==
    (call.fn = "extract_and_validate_multi" /\ ~call.extraction.raised) =>
        /\ call.result.success
        /\ Len(call.result.quotes) = Len(call.extraction.quotes)
        /\ InList(CountMismatchWarning(Len(call.extraction.quotes)),
                  call.result.warnings)
              <=> Len(call.extraction.quotes) < Len(call.expected)

-----------------------------------------------------------------------------
(* SpecFn: one call of one helper per behaviour *)

NextFn ==
    \/ CallFmtCurrency
    \/ CallGetAutoLimits
    \/ CallGetUmbrellaLimits
    \/ CallAddEndorsementsSection
    \/ CallGetLayout
    \/ CallValidateQuote
    \/ CallExtractAndValidateMulti

SpecFn == InitFn /\ [][NextFn]_vars


-----------------------------------------------------------------------------
(* The wizard (app/ui/streamlit_app.py): st.session_state and the script   *)
(* runs. Every user event reruns main() from the top; an action below is   *)
(* the event (a widget change, a button, a callback) followed by the run   *)
(* of main() it triggers, and by the further run an st.rerun() starts.     *)
(* An uploaded file and an extracted quote are kept as "there or not".     *)

\* mock.secrets = {"APP_PASSWORD": "correct"}
APP_PASSWORD == "correct"

\* `len(st.session_state.carriers) < 6` in _add_carrier_callback
MaxCarrierSlots == 6

\* `len(st.session_state.carriers) > 2` in _remove_carrier_callback
MinCarrierSlots == 2

\* `len(named_carriers) < 2` in _validate_upload_stage
MinNamedCarriers == 2

\* {"name": "", "home_pdf": None, "auto_pdf": None, "umbrella_pdf": None};
\* pdfs is the set of sections whose "<section>_pdf" holds a file
BlankCarrier == [name |-> "", pdfs |-> {}]

ToSet(seq) == {seq[i] : i \in 1..Len(seq)}

\* no session handed to an exporter
NoHanded ==
    [client_name |-> "", sections_included |-> <<>>, carriers |-> <<>>,
     current_policy |-> FALSE]

\* init_session_state: the defaults (a current policy, like a file or a
\* quote, is kept as "there or not"). The keys below the dashes record what
\* the runs did: the password typed, the stages the last run rendered, the
\* session that run handed to an exporter, the number of extractions so far,
\* and the extraction and section selection the approved bundles come from.
Defaults ==
    [current_step |-> 1,
     client_name |-> "",
     sections_included |-> <<"home">>,
     current_policy_data |-> FALSE,
     carriers |-> <<>>,
     extraction_complete |-> FALSE,
     carrier_bundles |-> <<>>,
     review_complete |-> FALSE,
     edited_bundles |-> <<>>,
     edited_current_policy |-> FALSE,
     export_pdf_path |-> FALSE,
     export_sheet_url |-> FALSE,
     \* ----
     entered_password |-> "",
     rendered |-> {},
     handed |-> NoHanded,
     extractions |-> 0,
     edited_extraction |-> 0,
     edited_sections |-> <<>>]

\* _render_carrier_uploads: "Initialize with minimum 2 carriers"
RenderCarrierUploads(s) ==
    IF Len(s.carriers) < MinCarrierSlots
    THEN [s EXCEPT !.carriers = <<BlankCarrier, BlankCarrier>>]
    ELSE s

\* the stages main() renders, from top to bottom
StagesRendered(s) ==
    {"upload"}
    \cup (IF s.extraction_complete THEN {"review"} ELSE {})
    \cup (IF s.review_complete THEN {"export"} ELSE {})

\* main(): one run of the script with no button pressed
Main(s) ==
    LET uploaded == RenderCarrierUploads(s)
    IN  [uploaded EXCEPT !.rendered = StagesRendered(uploaded),
                         !.handed = NoHanded]

\* named_carriers = [c for c in carriers if c.get("name", "").strip()]
IsNamed(c) == c.name # ""
NamedCarriers(s) == SelectSeq(s.carriers, IsNamed)

\* _validate_upload_stage: the list of error messages (one tag per message)
ValidateUploadStage(s) ==
    LET named == NamedCarriers(s)
        sections == ToSet(s.sections_included)
    IN  (IF s.client_name = "" THEN <<"Client name is required">> ELSE <<>>)
        \o (IF s.sections_included = <<>>
            THEN <<"Select at least one policy section">> ELSE <<>>)
        \o (IF Len(named) < MinNamedCarriers
            THEN <<"At least 2 carriers are required">> ELSE <<>>)
        \o (IF \E i, j \in 1..Len(named) : i # j /\ named[i].name = named[j].name
            THEN <<"Duplicate carrier names found">> ELSE <<>>)
        \o (IF \E i \in 1..Len(named) : named[i].pdfs \cap sections = {}
            THEN <<"needs at least one PDF uploaded">> ELSE <<>>)

\* one CarrierBundle of the wizard: the name and, per slot, whether a quote
\* is there
WizardBundle(name, home, auto, umbrella) ==
    [carrier_name |-> name, home |-> home, auto |-> auto, umbrella |-> umbrella]

\* render_upload_stage, the loop over named_carriers: a slot is filled when
\* its section is selected, a file is uploaded and extract_and_validate
\* succeeds (`result.success and result.quote`)
ExtractCarrier(s, c, success) ==
    LET got(section) == /\ section \in ToSet(s.sections_included)
                        /\ section \in c.pdfs
                        /\ success
    IN  WizardBundle(c.name, got("home"), got("auto"), got("umbrella"))

\* (variant) the results are stored but the downstream state is kept
ExtractAllQuotesKeepingReview(s, success) ==
    IF ValidateUploadStage(s) # <<>>
    THEN Main(s)
    ELSE LET named == NamedCarriers(s)
         IN  Main([s EXCEPT
                 !.carrier_bundles =
                     [i \in 1..Len(named) |-> ExtractCarrier(s, named[i], success)],
                 !.extraction_complete = TRUE,
                 !.current_step = 2,
                 !.extractions = @ + 1])

\* render_upload_stage, "Extract All Quotes" pressed: validation, extraction,
\* the results stored, the downstream state reset, st.rerun()
ExtractAllQuotes(s, success) ==
    IF ValidateUploadStage(s) # <<>>
    THEN Main(s)
    ELSE LET named == NamedCarriers(s)
         IN  Main([s EXCEPT
                 !.carrier_bundles =
                     [i \in 1..Len(named) |-> ExtractCarrier(s, named[i], success)],
                 !.extraction_complete = TRUE,
                 !.current_step = 2,
                 !.review_complete = FALSE,
                 !.edited_bundles = <<>>,
                 !.edited_current_policy = FALSE,
                 !.export_pdf_path = FALSE,
                 !.export_sheet_url = FALSE,
                 !.extractions = @ + 1])

\* _build_edited_bundles
BuildEditedBundles(s) ==
    LET sections == ToSet(s.sections_included)
        edit(b) == WizardBundle(b.carrier_name,
                                "home" \in sections /\ b.home,
                                "auto" \in sections /\ b.auto,
                                "umbrella" \in sections /\ b.umbrella)
    IN  [i \in 1..Len(s.carrier_bundles) |-> edit(s.carrier_bundles[i])]

\* _build_edited_current_policy: None when there is no current policy data
BuildEditedCurrentPolicy(s) == s.current_policy_data

\* render_review_stage, "Approve & Continue" pressed, st.rerun()
ApproveAndContinue(s) ==
    Main([s EXCEPT !.edited_bundles = BuildEditedBundles(s),
                   !.edited_current_policy = BuildEditedCurrentPolicy(s),
                   !.review_complete = TRUE,
                   !.current_step = 3,
                   !.edited_extraction = s.extractions,
                   !.edited_sections = s.sections_included])

\* _build_comparison_session
BuildComparisonSession(s) ==
    [client_name |-> s.client_name,
     sections_included |-> s.sections_included,
     carriers |-> s.edited_bundles,
     current_policy |-> s.edited_current_policy]

\* (variant) the limit is tested with <= instead of <
AddCarrierCallbackOffByOne(s) ==
    IF Len(s.carriers) <= MaxCarrierSlots
    THEN [s EXCEPT !.carriers = Append(@, BlankCarrier)]
    ELSE s

\* _add_carrier_callback
AddCarrierCallback(s) ==
    IF Len(s.carriers) < MaxCarrierSlots
    THEN [s EXCEPT !.carriers = Append(@, BlankCarrier)]
    ELSE s

\* list.pop(index), index counted from 1
Pop(seq, index) == SubSeq(seq, 1, index - 1) \o SubSeq(seq, index + 1, Len(seq))

\* _remove_carrier_callback
RemoveCarrierCallback(s, index) ==
    IF Len(s.carriers) > MinCarrierSlots
    THEN [s EXCEPT !.carriers = Pop(@, index)]
    ELSE s

\* _reset_session_callback, then init_session_state of the run that follows
ResetSessionCallback(s) == Defaults

-----------------------------------------------------------------------------
(* SpecWizard: one browser session of the wizard *)

\* the state after the first run of main()
InitWizard ==
    /\ session = IdleSession
    /\ grid = <<>>
    /\ config = NewGridConfig
    /\ worksheet = NoWorksheet
    /\ pdf = NoPdf
    /\ call = NoCall
    /\ st = Main(Defaults)

\* extractions in one session
MaxExtractions == 2

PasswordInputs == {"", "wrong", APP_PASSWORD}
ClientNameInputs == {"Test Client"}
SectionSelections == {<<>>, <<"home">>, <<"home", "auto">>}
\* the names typed for the carriers, by position
CarrierNames ==
    <<"Erie", "Westfield", "Grange", "Allstate", "Progressive", "Nationwide">>

\* the ways the user fills in n carrier slots: the first k are named and
\* given a file in every uploader shown, the others are left empty; or the
\* first two are given the same name
CarrierForms(n) ==
    {[i \in 1..n |-> IF i <= k THEN CarrierNames[i] ELSE ""] : k \in 0..n}
    \cup {[i \in 1..n |-> IF i <= 2 THEN CarrierNames[1] ELSE ""]}

\* the user types a password (main() has no widget that reads it)
EnterPassword ==
    /\ \E password \in PasswordInputs :
          st' = Main([st EXCEPT !.entered_password = password])
    /\ UNCHANGED <<session, grid, config, worksheet, pdf, call>>

\* st.text_input("Client Name", key="client_name")
SetClientName ==
    /\ \E name \in ClientNameInputs :
          st' = Main([st EXCEPT !.client_name = name])
    /\ UNCHANGED <<session, grid, config, worksheet, pdf, call>>

\* st.multiselect("Policy Sections to Compare", key="sections_included");
\* _render_carrier_uploads then shows one uploader per selected section and
\* stores its file: the uploader of a section that was not shown is empty
SetSections ==
    /\ \E sections \in SectionSelections :
          LET shown(c) == [c EXCEPT !.pdfs = @ \cap ToSet(sections)]
          IN  st' = Main([st EXCEPT !.sections_included = sections,
                                    !.carriers = [i \in 1..Len(@) |-> shown(@[i])]])
    /\ UNCHANGED <<session, grid, config, worksheet, pdf, call>>

CurrentCarrierInputs == {"", "State Farm"}

\* _render_current_policy_manual_form, "Save Current Policy" submitted:
\* _build_current_policy_from_form raises ValueError without a carrier name
\* and nothing is stored
SaveCurrentPolicy ==
    /\ \E carrier_name \in CurrentCarrierInputs :
          st' = Main(IF carrier_name = "" THEN st
                     ELSE [st EXCEPT !.current_policy_data = TRUE])
    /\ UNCHANGED <<session, grid, config, worksheet, pdf, call>>

\* _render_carrier_uploads: the names typed and the files uploaded are
\* written back into st.session_state.carriers
FillCarriers ==
    /\ \E names \in CarrierForms(Len(st.carriers)) :
          LET shown == ToSet(st.sections_included)
              filled(i) == [name |-> names[i],
                            pdfs |-> IF names[i] # "" THEN shown ELSE {}]
          IN  st' = Main([st EXCEPT !.carriers =
                                      [i \in 1..Len(st.carriers) |-> filled(i)]])
    /\ UNCHANGED <<session, grid, config, worksheet, pdf, call>>

\* "Add Another Carrier"
AddCarrier ==
    /\ st' = Main(AddCarrierCallback(st))
    /\ UNCHANGED <<session, grid, config, worksheet, pdf, call>>

RemoveInputs(s) == {1, Len(s.carriers)}

\* the remove button of carrier `index`
RemoveCarrier ==
    /\ \E index \in RemoveInputs(st) :
          st' = Main(RemoveCarrierCallback(st, index))
    /\ UNCHANGED <<session, grid, config, worksheet, pdf, call>>

\* "Extract All Quotes"
ExtractAll ==
    /\ "upload" \in st.rendered
    /\ st.extractions < MaxExtractions
    /\ \E success \in BOOLEAN : st' = ExtractAllQuotes(st, success)
    /\ UNCHANGED <<session, grid, config, worksheet, pdf, call>>

\* "Approve & Continue"
Approve ==
    /\ "review" \in st.rendered
    /\ st' = ApproveAndContinue(st)
    /\ UNCHANGED <<session, grid, config, worksheet, pdf, call>>

\* render_export_stage, "Generate PDF": the session is built and handed to
\* generate_comparison_pdf; the path is kept unless the call raised
GeneratePdf ==
    /\ "export" \in st.rendered
    /\ \E raised \in BOOLEAN :
          st' = [Main(st) EXCEPT !.handed = BuildComparisonSession(st),
                                 !.export_pdf_path = IF raised THEN @ ELSE TRUE]
    /\ UNCHANGED <<session, grid, config, worksheet, pdf, call>>

\* render_export_stage, "Export to Google Sheets": the session is built and
\* handed to create_comparison; the url is kept unless the call raised
ExportToGoogleSheets ==
    /\ "export" \in st.rendered
    /\ \E raised \in BOOLEAN :
          st' = [Main(st) EXCEPT !.handed = BuildComparisonSession(st),
                                 !.export_sheet_url = IF raised THEN @ ELSE TRUE]
    /\ UNCHANGED <<session, grid, config, worksheet, pdf, call>>

\* "Reset Session"
ResetSession ==
    /\ st' = Main(ResetSessionCallback(st))
    /\ UNCHANGED <<session, grid, config, worksheet, pdf, call>>

NextWizard ==
    \/ EnterPassword
    \/ SetClientName
    \/ SetSections
    \/ SaveCurrentPolicy
    \/ FillCarriers
    \/ ExtractAll
    \/ Approve
    \/ GeneratePdf
    \/ ExportToGoogleSheets
    \/ ResetSession

SpecWizard == InitWizard /\ [][NextWizard]_vars


-----------------------------------------------------------------------------
(* SpecCarriers: the carrier list of a session whose client is named *)

InitCarriers ==
    /\ session = IdleSession
    /\ grid = <<>>
    /\ config = NewGridConfig
    /\ worksheet = NoWorksheet
    /\ pdf = NoPdf
    /\ call = NoCall
    /\ st = Main([Defaults EXCEPT !.client_name = "Test Client"])

NextCarriers ==
    \/ FillCarriers
    \/ AddCarrier
    \/ RemoveCarrier
    \/ ExtractAll
    \/ Approve
    \/ ExportToGoogleSheets

SpecCarriers == InitCarriers /\ [][NextCarriers]_vars

-----------------------------------------------------------------------------
(* C21: main() is password-gated *)

\* C21 (as stated): in every run, unless the password entered is non-empty
\* and equal to APP_PASSWORD, main() stops before any wizard stage (upload,
\* review, export) is rendered.
C21_PasswordGated ==
    st.rendered # {} => (st.entered_password # "" /\ st.entered_password = APP_PASSWORD)

-----------------------------------------------------------------------------
(* C22: what a row index of the metadata designates *)

\* Python's grid[i] (list positions start at 0)
PyGrid(i) == grid[i + 1]

PyPositions == 0..(Len(grid) - 1)

IsHeaderRow(row) ==
    IsTitleRow(row) \/ IsCarrierHeaderRow(row) \/ IsSectionHeaderRow(row)

\* every recorded index, shifted by `offset`, is a list position of the grid
\* and the row there has the role it is recorded under
MetadataDesignates(offset) ==
    /\ \A k \in 1..Len(config.header_rows) :
          LET i == config.header_rows[k] - offset
          IN  i \in PyPositions /\ IsHeaderRow(PyGrid(i))
    /\ \A k \in 1..Len(config.sub_header_rows) :
          LET i == config.sub_header_rows[k] - offset
          IN  i \in PyPositions /\ IsSubHeaderRow(PyGrid(i))
    /\ \A k \in 1..Len(config.currency_rows) :
          LET i == config.currency_rows[k] - offset
          IN  i \in PyPositions /\ IsDataRow(PyGrid(i))
    /\ \A k \in 1..Len(config.even_data_rows) :
          LET i == config.even_data_rows[k] - offset
          IN  i \in PyPositions /\ IsDataRow(PyGrid(i))
    /\ LET i == config.total_row - offset
       IN  i \in PyPositions /\ IsTotalRow(PyGrid(i))

\* C22 (as stated): every row index recorded in the grid metadata is a
\* 0-based position counting the banner rows: index i refers to grid[i].
C22_MetadataZeroBased == GridBuilt => MetadataDesignates(0)

\* C22 (amended): every row index recorded in the grid metadata is the
\* 1-based sheet row number, counting the banner rows: index i refers to
\* grid[i - 1]; the title row is index 1 and the carrier header index 3.
C22_MetadataOneBased ==
    GridBuilt =>
        /\ MetadataDesignates(1)
        /\ config.header_rows[1] = 1 /\ IsTitleRow(PyGrid(0))
        /\ config.header_rows[2] = 3 /\ IsCarrierHeaderRow(PyGrid(2))

\* C22 witness: a single-dwelling grid whose Total row is the seventh row,
\* recorded as 7 and found at grid[6]
C22_Witness ==
    /\ GridBuilt
    /\ config.total_row = 7
    /\ IsTotalRow(PyGrid(6))
    /\ ~IsTotalRow(grid[Len(grid)])
    /\ Len(config.sub_header_rows) = 0

-----------------------------------------------------------------------------
(* C23: no section header is left alone at the bottom of a page *)

IsPdfHeading(row) == row.kind \in {"divider", "sub_divider"}

IsPdfContent(row) == row.kind \in {"data", "total"}

\* the table rows after row i that are content rows
ContentAfter(i) == {j \in (i + 1)..Len(pdf.rows) : IsPdfContent(pdf.rows[j])}

\* the first content row after row i (0 when there is none)
FirstContentAfter(i) ==
    IF ContentAfter(i) = {} THEN 0
    ELSE CHOOSE j \in ContentAfter(i) : \A k \in ContentAfter(i) : j <= k

\* table rows that are headings separated from their first content row
OrphanedHeadings ==
    {i \in 1..Len(pdf.rows) :
        /\ IsPdfHeading(pdf.rows[i])
        /\ FirstContentAfter(i) # 0
        /\ pdf.placed.rows[FirstContentAfter(i)].page # pdf.placed.rows[i].page}

\* C23 (as stated): a section header is never orphaned: whenever a section
\* title, a section divider row or a dwelling sub-divider row is drawn, the
\* first content row that follows it is drawn on the same page.
C23_NoOrphanedHeader ==
    PdfWritten =>
        /\ OrphanedHeadings = {}
        /\ pdf.placed.rows[1].page = pdf.placed.table_title.page
        /\ pdf.placed.endorsements[1].page = pdf.placed.endorsements_title.page

-----------------------------------------------------------------------------
(* C24: the wizard's stages stay in step with the extraction *)

\* review_complete implies extraction_complete; the export stage is rendered
\* only while review_complete holds, and then the approved bundles come from
\* the most recent extraction
C24_StagesInStep ==
    /\ st.review_complete => st.extraction_complete
    /\ "export" \in st.rendered => st.review_complete
    /\ "export" \in st.rendered => st.edited_extraction = st.extractions

\* a step that is a successful extraction leaves review_complete false and
\* edited_bundles, edited_current_policy, export_pdf_path, export_sheet_url
\* cleared
C24_ExtractionResets ==
    st'.extractions = st.extractions + 1 =>
        /\ ~st'.review_complete
        /\ st'.edited_bundles = <<>>
        /\ ~st'.edited_current_policy
        /\ ~st'.export_pdf_path
        /\ ~st'.export_sheet_url

\* C24: after any sequence of user actions (extract, approve, re-extract,
\* reset) review_complete implies extraction_complete, the export stage is
\* rendered only while review_complete holds, every successful extraction
\* sets review_complete to false and clears edited_bundles,
\* edited_current_policy, export_pdf_path and export_sheet_url, and so the
\* export stage is never reached with bundles approved before the most
\* recent extraction.
C24_ExportOnlyAfterFreshApproval ==
    [](C24_StagesInStep) /\ [][C24_ExtractionResets]_vars

\* C24 witness: after a re-extraction and a new approval the export stage is
\* rendered again and a session with a current policy is handed over
C24_Witness ==
    /\ st # NoSessionState
    /\ st.extractions = 2
    /\ st.edited_extraction = 2
    /\ "export" \in st.rendered
    /\ st.handed # NoHanded
    /\ st.handed.current_policy

-----------------------------------------------------------------------------
(* C25: the sections of an exported session *)

\* C25 (as stated): every export uses the sections_included in force when
\* the exported bundles were approved: changing the section selection after
\* approval cannot change the session handed to generate_comparison_pdf or
\* create_comparison until a new extraction and approval have taken place.
C25_ExportUsesApprovedSections ==
    st.handed # NoHanded => st.handed.sections_included = st.edited_sections

-----------------------------------------------------------------------------
(* C26: between 2 and 6 carriers *)

CarrierSlotRange == MinCarrierSlots..MaxCarrierSlots

\* C26: once the carrier list has been initialised, any sequence of add and
\* remove callbacks keeps the number of carrier slots within [2,6] (add is a
\* no-op at 6 slots, remove is a no-op at 2 slots), and every
\* ComparisonSession handed to an exporter has between 2 and 6 bundles.
C26_CarrierCountWithinRange ==
    /\ Len(st.carriers) \in CarrierSlotRange
    /\ Len(st.carriers) = MaxCarrierSlots => AddCarrierCallback(st) = st
    /\ Len(st.carriers) = MinCarrierSlots =>
          \A index \in 1..Len(st.carriers) : RemoveCarrierCallback(st, index) = st
    /\ st.handed # NoHanded => Len(st.handed.carriers) \in CarrierSlotRange

\* C26 witness: six carriers were extracted and approved, four slots were
\* removed afterwards, and the session of six bundles is handed over
C26_Witness ==
    /\ st # NoSessionState
    /\ st.handed # NoHanded
    /\ Len(st.handed.carriers) = MaxCarrierSlots
    /\ Len(st.carriers) = MinCarrierSlots

-----------------------------------------------------------------------------
(* Gemini calls under tenacity's @retry (app/extraction/ai_extractor.py).  *)
(* `call` holds one extraction in progress: the attempts made so far, what *)
(* the decorated function finally did, and what the pipeline returned.     *)

\* stop_after_attempt(3)
MaxAttempts == 3

\* (variant) the stop condition lets one more attempt through
StopAfterAttemptLate(attempt_number) == attempt_number > MaxAttempts

\* stop=stop_after_attempt(3): no retry once this attempt number is reached
StopAfterAttempt(attempt_number) == attempt_number >= MaxAttempts

\* `if is_digital and text:` text path, else multimodal path
GeminiFunction(multi, is_digital, text) ==
    IF is_digital /\ text # ""
    THEN (IF multi THEN "_call_gemini_text_multi" ELSE "_call_gemini_text")
    ELSE (IF multi THEN "_call_gemini_multimodal_multi" ELSE "_call_gemini_multimodal")

\* what one attempt of a Gemini call does: the API call raises, the response
\* cannot be parsed, or the parsed quote(s) are returned
GeminiOutcomes(multi) ==
    {Raised("ServerError"), Raised("ValueError")}
    \cup (IF multi THEN {e \in Extractions : ~e.raised}
          ELSE {[raised |-> FALSE, quote |-> q] : q \in {CombinedHome, CombinedUmbrella}})

\* tenacity raises RetryError when it stops after a failed attempt
RetryError == Raised("RetryError")

NoExtraction == [raised |-> FALSE, pending |-> TRUE]

\* extract_and_validate: any exception ends in success=False with the error
\* and the default quote=None
ExtractAndValidate(extraction) ==
    IF extraction.raised
    THEN [success |-> FALSE, quote |-> None, warnings |-> <<>>,
          error |-> extraction.error]
    ELSE LET v == ValidateQuote(extraction.quote)
         IN  IF v.raised
             THEN [success |-> FALSE, quote |-> None, warnings |-> <<>>,
                   error |-> v.error]
             ELSE [success |-> TRUE, quote |-> v.quote, warnings |-> v.warnings,
                   error |-> ""]

ExtractionPipelines == {"extract_and_validate", "extract_and_validate_multi"}

\* extract_and_validate[_multi] is called and reaches the decorated call
BeginExtraction ==
    /\ call = NoCall
    /\ \E multi \in BOOLEAN, is_digital \in BOOLEAN, text \in {"", "Declarations"},
          expected \in {<<>>, <<"home", "umbrella">>} :
          /\ ~multi => expected = <<>>
          /\ call' = [fn |-> IF multi THEN "extract_and_validate_multi"
                             ELSE "extract_and_validate",
                      is_digital |-> is_digital, text |-> text,
                      expected |-> expected,
                      gemini |-> GeminiFunction(multi, is_digital, text),
                      pc |-> "attempt", attempt_number |-> 1, attempts |-> <<>>,
                      extraction |-> NoExtraction, result |-> NoCall]
    /\ UNCHANGED <<session, grid, config, worksheet, pdf, st>>

\* one iteration of the retry loop: the function is attempted; its result
\* is returned, or its exception is retried after the wait unless the stop
\* condition holds, in which case RetryError is raised
AttemptGeminiCall ==
    /\ call.fn \in ExtractionPipelines
    /\ call.pc = "attempt"
    /\ \E outcome \in GeminiOutcomes(call.fn = "extract_and_validate_multi") :
          call' = IF ~outcome.raised
                  THEN [call EXCEPT !.attempts = Append(@, outcome),
                                    !.pc = "returned", !.extraction = outcome]
                  ELSE IF StopAfterAttempt(call.attempt_number)
                  THEN [call EXCEPT !.attempts = Append(@, outcome),
                                    !.pc = "raised", !.extraction = RetryError]
                  ELSE [call EXCEPT !.attempts = Append(@, outcome),
                                    !.attempt_number = @ + 1]
    /\ UNCHANGED <<session, grid, config, worksheet, pdf, st>>

\* the rest of extract_and_validate[_multi] after the decorated call ended
FinishExtraction ==
    /\ call.fn \in ExtractionPipelines
    /\ call.pc \in {"returned", "raised"}
    /\ call' = [call EXCEPT
                  !.pc = "done",
                  !.result = IF call.fn = "extract_and_validate_multi"
                             THEN ExtractAndValidateMulti(call.extraction, call.expected)
                             ELSE ExtractAndValidate(call.extraction)]
    /\ UNCHANGED <<session, grid, config, worksheet, pdf, st>>

NextExtract ==
    \/ BeginExtraction
    \/ AttemptGeminiCall
    \/ FinishExtraction

SpecExtract == InitFn /\ [][NextExtract]_vars

AllAttemptsFailed ==
    /\ Len(call.attempts) = MaxAttempts
    /\ \A i \in 1..Len(call.attempts) : call.attempts[i].raised

\* C27: each Gemini call is attempted at most 3 times per extraction: the
\* first successful attempt ends the retries and its result is returned;
\* after a third consecutive failing attempt no further attempt is made and
\* the failure reaches extract_and_validate, which reports success=False
\* with an error and no quote.
C27_AtMostThreeAttempts ==
    call.fn \in ExtractionPipelines =>
        /\ Len(call.attempts) <= MaxAttempts
        /\ \A i \in 1..(Len(call.attempts) - 1) : call.attempts[i].raised
        /\ call.pc = "attempt" => \A i \in 1..Len(call.attempts) : call.attempts[i].raised
        /\ call.pc = "returned" =>
              /\ ~call.extraction.raised
              /\ call.extraction = call.attempts[Len(call.attempts)]
        /\ call.pc = "raised" => AllAttemptsFailed /\ call.extraction.raised
        /\ (call.pc = "done" /\ AllAttemptsFailed) =>
              /\ ~call.result.success
              /\ call.result.error # ""
              /\ IF call.fn = "extract_and_validate_multi"
                 THEN call.result.quotes = <<>>
                 ELSE call.result.quote = None

\* C27 witness: extract_and_validate has returned after three failed
\* attempts of the Gemini call
C27_Witness ==
    /\ call.fn = "extract_and_validate"
    /\ call.pc = "done"
    /\ AllAttemptsFailed
    /\ ~call.result.success

-----------------------------------------------------------------------------
(* Worksheet titles (SheetsClient._create_worksheet). The spreadsheet is   *)
(* the list of the titles of its worksheets; create_comparison is called   *)
(* sequentially on sessions of a few clients.                              *)

\* largest number of create_comparison calls in a behaviour
MaxWorksheets == 3

\* f"Quote_{client_name}_{date}"
BaseName(client_name, date) == "Quote_" \o client_name \o "_" \o date

\* f"{base_name}_{counter}"
NumberedName(base_name, counter) == base_name \o "_" \o ToString(counter)

\* (variant) one collision check only: the name numbered 2 is taken unchecked
UniqueNameCheckedOnce(base_name, existing_names, worksheet_name, counter) ==
    IF InList(worksheet_name, existing_names)
    THEN [worksheet_name |-> NumberedName(base_name, counter), counter |-> counter + 1]
    ELSE [worksheet_name |-> worksheet_name, counter |-> counter]

\* the loop `while worksheet_name in existing_names:`
RECURSIVE UniqueName(_, _, _, _)
UniqueName(base_name, existing_names, worksheet_name, counter) ==
    IF InList(worksheet_name, existing_names)
    THEN UniqueName(base_name, existing_names,
                    NumberedName(base_name, counter), counter + 1)
    ELSE [worksheet_name |-> worksheet_name, counter |-> counter]

\* _create_worksheet: the title chosen and the worksheet added
CreateWorksheet(titles, client_name, date, num_data_cols, total_rows) ==
    LET base_name == BaseName(client_name, date)
        existing_names == titles
        unique == UniqueName(base_name, existing_names, base_name, 2)
    IN  [title |-> unique.worksheet_name, counter |-> unique.counter,
         base_name |-> base_name, existing_names |-> existing_names,
         rows |-> total_rows, cols |-> 1 + num_data_cols]

\* worksheets the spreadsheet holds before the first export: the default
\* sheet, and possibly earlier comparisons of a client (some deleted since)
EarlierTitles ==
    <<BaseName("Test Client", "2026-02-14"),
      NumberedName(BaseName("Test Client", "2026-02-14"), 2),
      NumberedName(BaseName("Test Client", "2026-02-14"), 3),
      NumberedName(BaseName("Test Client", "2026-02-14"), 4)>>

RECURSIVE SelectTitles(_, _)
SelectTitles(titles, keep) ==
    IF titles = <<>> THEN <<>>
    ELSE (IF Head(titles) \in keep THEN <<Head(titles)>> ELSE <<>>)
         \o SelectTitles(Tail(titles), keep)

InitialSpreadsheets ==
    {<<"Sheet1">> \o SelectTitles(EarlierTitles, keep) : keep \in SUBSET ToSet(EarlierTitles)}

TitledSessions ==
    {[s EXCEPT !.client_name = client_name] :
        s \in {c \in CompileSessions : c.sections_included = <<"home">>},
        client_name \in {"Test Client", "Other Client"}}

InitTitles ==
    /\ session = IdleSession
    /\ grid = <<>>
    /\ config = NewGridConfig
    /\ \E titles \in InitialSpreadsheets :
          worksheet = [status |-> "opened", titles |-> titles]
    /\ pdf = NoPdf
    /\ call = [fn |-> "_create_worksheet", created |-> 0]
    /\ st = NoSessionState

\* create_comparison(session): grid built, worksheet created under a unique
\* title, grid written
CreateComparisonInSpreadsheet ==
    /\ call.created < MaxWorksheets
    /\ \E s \in TitledSessions :
          LET num_data_cols == GetNumDataColumns(s)
              built == BuildFullGrid(s, num_data_cols)
              new_ws == CreateWorksheet(worksheet.titles, s.client_name, s.date,
                                        num_data_cols, built.config.total_rows)
          IN  /\ session' = s
              /\ grid' = built.grid
              /\ config' = built.config
              /\ worksheet' = [status |-> "created", rows |-> new_ws.rows,
                               cols |-> new_ws.cols,
                               num_data_cols |-> num_data_cols,
                               title |-> new_ws.title,
                               titles |-> Append(worksheet.titles, new_ws.title)]
              /\ call' = [fn |-> "_create_worksheet", created |-> call.created + 1,
                          base_name |-> new_ws.base_name,
                          existing_names |-> new_ws.existing_names,
                          counter |-> new_ws.counter]
    /\ UNCHANGED <<pdf, st>>

NextTitles == CreateComparisonInSpreadsheet

SpecTitles == InitTitles /\ [][NextTitles]_vars

PairwiseDistinct(seq) ==
    \A i, j \in 1..Len(seq) : seq[i] = seq[j] => i = j

\* C28: _create_worksheet terminates and creates a worksheet whose title is
\* not among the titles existing when it was called: Quote_{client}_{date}
\* if that is free, otherwise Quote_{client}_{date}_k for the smallest
\* k >= 2 that is free; after any sequence of sequential create_comparison
\* calls all worksheet titles of the spreadsheet are pairwise distinct.
C28_UniqueWorksheetTitle ==
    /\ PairwiseDistinct(worksheet.titles)
    /\ worksheet.status = "created" =>
          /\ ~InList(worksheet.title, call.existing_names)
          /\ worksheet.titles = Append(call.existing_names, worksheet.title)
          /\ IF ~InList(call.base_name, call.existing_names)
             THEN worksheet.title = call.base_name
             ELSE \E k \in 2..(Len(call.existing_names) + 2) :
                     /\ worksheet.title = NumberedName(call.base_name, k)
                     /\ \A j \in 2..(k - 1) :
                           InList(NumberedName(call.base_name, j), call.existing_names)

\* C28 witness: the base title and the title numbered 2 were taken, the
\* title numbered 3 free, and the worksheet was created as number 3
C28_Witness ==
    /\ worksheet.status = "created"
    /\ InList(call.base_name, call.existing_names)
    /\ InList(NumberedName(call.base_name, 2), call.existing_names)
    /\ worksheet.title = NumberedName(call.base_name, 3)

-----------------------------------------------------------------------------
(* C29: the Total cell against the premium cells displayed above it *)

PremiumRowLabels ==
    {"Auto Premium", "Home Premium", "Home 1 Premium", "Home 2 Premium",
     "Umbrella Premium"}

\* the rows of the Premium section above the Total row
PremiumRowsShown ==
    {r \in GridRows : r < config.total_row /\ RowLabel(grid[r]) \in PremiumRowLabels}

\* a displayed cell as an amount: the number it holds, 0 for "-"
CellAmount(cell) == IF cell.k = "num" THEN cell.n ELSE 0

RECURSIVE SumCells(_, _)
SumCells(rows, col) ==
    IF rows = {} THEN 0
    ELSE LET r == CHOOSE x \in rows : TRUE
         IN  CellAmount(grid[r][col]) + SumCells(rows \ {r}, col)

Home2RowShown == \E r \in PremiumRowsShown : RowLabel(grid[r]) = "Home 2 Premium"

\* the premiums of data column j without any dwelling-2 premium
ColumnSumOneDwelling(j) ==
    IF IsBaselineColumn(j)
    THEN PremiumOrZero(session.current_policy.home_premium)
         + PremiumOrZero(session.current_policy.auto_premium)
         + PremiumOrZero(session.current_policy.umbrella_premium)
    ELSE LET cb == session.carriers[j - BaselineOffset]
         IN  QuotePremiumOrZero(cb.home) + QuotePremiumOrZero(cb.auto)
             + QuotePremiumOrZero(cb.umbrella)

\* C29: in every built grid, for each data column the Total cell equals the
\* sum of the numeric premium cells shown above it in the Premium section
\* of the same column ("-" counting as 0); no dwelling-2 premium is part of
\* a Total unless the Home 2 Premium row is displayed.
C29_TotalIsSumOfShownPremiums ==
    GridBuilt =>
        \A j \in 1..worksheet.num_data_cols :
            /\ grid[config.total_row][1 + j] = Num(SumCells(PremiumRowsShown, 1 + j))
            /\ ~Home2RowShown =>
                  grid[config.total_row][1 + j] = Num(ColumnSumOneDwelling(j))

\* C29 witness: a grid with the Home 2 Premium row displayed in which the
\* baseline and a carrier hold a dwelling-2 premium and another carrier's
\* Home 2 Premium cell is "-"
C29_Witness ==
    /\ GridBuilt
    /\ Home2RowShown
    /\ session.current_policy.present
    /\ worksheet.num_data_cols >= 3
    /\ \E r \in PremiumRowsShown :
          /\ RowLabel(grid[r]) = "Home 2 Premium"
          /\ grid[r][2].k = "num" /\ grid[r][2].n > 0
          /\ \E j \in 2..worksheet.num_data_cols : grid[r][1 + j].k = "num"
          /\ \E j \in 2..worksheet.num_data_cols : grid[r][1 + j] = Str("-")

-----------------------------------------------------------------------------
(* C30: the grid is rectangular and fits the worksheet *)

\* C30: for a session with at least one data column, every row of the built
\* grid (title, date, carrier header, data, section header, sub-header and
\* blank separator rows alike) has exactly 1 + num_data_cols cells, and the
\* worksheet is created with config.total_rows rows and 1 + num_data_cols
\* columns, so the written grid fits it exactly.
C30_GridFitsWorksheet ==
    (GridBuilt /\ GetNumDataColumns(session) >= 1) =>
        /\ \A r \in GridRows : Len(grid[r]) = 1 + GetNumDataColumns(session)
        /\ worksheet.rows = config.total_rows
        /\ worksheet.cols = 1 + GetNumDataColumns(session)
        /\ Len(grid) = worksheet.rows

\* C30 witness: a multi-dwelling grid of three columns (one carrier and the
\* baseline) with every kind of row
C30_Witness ==
    /\ GridBuilt
    /\ GetNumDataColumns(session) = 2
    /\ session.current_policy.present
    /\ worksheet.rows = MultiDwellingRows
    /\ \E r \in GridRows : IsTitleRow(grid[r])
    /\ \E r \in GridRows : IsCarrierHeaderRow(grid[r])
    /\ \E r \in GridRows : IsSectionHeaderRow(grid[r])
    /\ \E r \in GridRows : IsSubHeaderRow(grid[r])
    /\ \E r \in GridRows : IsBlankRow(grid[r])
    /\ \E r \in GridRows : IsTotalRow(grid[r])

====
